---- MODULE Spec2Model ----
(***************************************************************************)
(* A state-machine model of the Quark qkernel core: the QLock task mutex,  *)
(* the timer subsystem (raw and batched mode), the two-tier heap allocator,*)
(* the guest/host message transport of ShareSpace, and task creation.      *)
(* Every subsystem has its own specification over the shared variables;    *)
(* the variables of the other subsystems stay at their initial values.     *)
(***************************************************************************)
EXTENDS Integers, Sequences, FiniteSets, TLC

VARIABLES
    \* ---- QLock (kernel/waiter/qlock.rs)
    locked,      \* QLock.locked : the flag inside the QMutex
    queue,       \* QLock.queue  : the registered wait entries, in list order
    waiterBit,   \* per task: the bit of blocker.generalEntry in the task's waiter
    lpc,         \* per task: position inside QLock::Lock / guard ownership
    lockRet,     \* per task: result of the task's last completed Lock call
    woken,       \* the tasks the last waking Unlock notified, and what became of them
    \* ---- timers (kernel/timer/raw_timer.rs, kernel/timer/timer_store.rs)
    rawMode,     \* SHARESPACE.config.RawTimer
    clock,       \* MONOTONIC_CLOCK.Now().0, in nanoseconds
    tState,      \* per timer: RawTimerInternal.State
    tSeqNo,      \* per timer: RawTimerInternal.SeqNo
    tUserData,   \* per timer: RawTimerInternal.userData
    timerSeq,    \* TimerStoreIntern.timerSeq
    timers,      \* TimerStoreIntern.timers
    nextExpire,  \* TimerStoreIntern.nextExpire
    uringId,     \* TimerStoreIntern.uringId
    sqes,        \* io_uring TIMEOUT entries submitted and not yet completed
    cqes,        \* io_uring completions posted and not yet handled
    stack,       \* per kernel thread: the frames of the timer calls it is in
    panic,       \* a failed assert! of the timer code, "none" if none failed
    cancelled,   \* history: the armings <<id, seq>> cancelled while Running
    fireLog,     \* history: the last Fire(seq) that ran its test, and its outcome
    drainTrace,  \* whether a drain's frame notes the unit it fired last (fixed at Init)
    \* ---- heap allocator (qlib/mem/list_allocator.rs, buddy_allocator.rs)
    free_list,   \* Heap.free_list : per order, the free blocks, head first
    bufs,        \* ListAllocator.bufs : per class, the parked blocks, head first
    total,       \* ListAllocator.total
    free,        \* ListAllocator.free
    bufSize,     \* ListAllocator.bufSize
    held,        \* the blocks callers hold: address, the layout asked with,
                 \* the size alloc computed and the tier that served it
    kept,        \* the blocks long-lived owners hold and never give back
    allocHalt,   \* "none", or why a call into the allocator never returned
    calls,       \* number of allocator calls made so far
    lastCall,    \* history: the allocator call made last
    \* ---- host-call transport (qkernel/src/Kernel.rs, qlib/mod.rs)
    ioThreadState, \* ShareSpace.ioThreadState
    hostMsgCount,  \* ShareSpace.hostMsgCount
    QOutput,     \* ShareSpace.QOutput : the ring, oldest message first
    eventfd,     \* writes to hostIOThreadEventfd the host has not read yet
    vpc,         \* per vCPU: position inside Call / AQCall
    vcall,       \* per vCPU: the call it is in and what its Notify swap read
    hpc,         \* host I/O thread: "run", "popped" (inside a pop), "parked"
    hmsg,        \* host I/O thread: inside a pop, what QOutput.Pop() returned
    wakers,      \* history: the vCPUs whose swap read WAITING since the host
                 \* last stored WAITING
    \* ---- task creation (qkernel/src/task.rs)
    taskSet,     \* the tasks Task::Create has built
    running,     \* the task a vCPU runs, its stack pointer, and the id
                 \* Task::TaskId() last computed from it
    \* ---- thread ids (qkernel/src/threadmgr/threads.rs)
    nsTasks,     \* per PID namespace, tasks: tid -> thread (0: no entry)
    nsTids,      \* per PID namespace, tids: thread -> tid (0: no entry)
    nsTgids,     \* per PID namespace, tgids: thread group -> tid (0: none)
    thrTg,       \* per thread, the thread group NewTask put it in (0: none)
    thrId,       \* per thread, ThreadInternal.id
    tgLeader,    \* per thread group, its leader (0: none yet)
    taskCount,   \* TaskSetInternal.taskCount
    lastUid,     \* the uid NewUID() handed out last
    curThread,   \* the thread the calling Task is bound to (0: the one it had)
    \* ---- traps (qkernel/src/interrupt/mod.rs, lib.rs, task.rs)
    tpc,         \* where the task is: "boot", "user", "sys" (inside a
                 \* syscall), "stopSys" / "stopMain" (blocked in DoStop of
                 \* syscall_handler / of MainRun), "exited", "panic"
    schedState,  \* TaskSchedInfo.State of the task
    stopCount,   \* the thread's stopCount
    sigBlocked,  \* the signals the thread blocks
    sigIgnored,  \* the signals the thread ignores
    sigPending,  \* the SignalInfo records queued for the thread
    trapOut,     \* history: what the last trap handler was given and did
    \* ---- io_uring submission queue (qlib/uring/squeue.rs)
    sqHead,      \* *SubmissionQueue.head, the counter the consumer advances
    sqTail,      \* *SubmissionQueue.tail, the counter the submitter publishes
    sqSlots,     \* SubmissionQueue.sqes, by slot index (0: never written)
    aq,          \* the AvailableQueue of the submitter: live, head, tail
    sqPending,   \* history: the entries pushed and not consumed, oldest first
    sqPushed,    \* history: number of entries pushed so far
    sqRet,       \* history: what the last push returned
    needFreeRet, \* what the last NeedFree call returned, "none" before the first
    prefetch,    \* a resolved page-absent fault: its VMA and page, the loop index, the pages mapped
    exitRun,     \* MainRun of an exiting task: the statement it is at and who refers to what
    rustMain,    \* rust_main on each vCPU: the statement it is at, and what vCPU 0 has set up
    locks,       \* the TIMER_STORE lock and the timers' locks: who holds them, and what each thread is to do next
    modes,       \* one timer driven by the same calls in raw mode and in batched mode
    \* ---- buffered socket receive (socket/hostinet/socket.rs)
    recvMsg      \* one RecvMsg call: its arguments, locals, position and result

qlockVars == <<locked, queue, waiterBit, lpc, lockRet, woken>>

timerObjVars == <<tState, tSeqNo, tUserData>>

storeVars == <<timerSeq, timers, nextExpire, uringId>>

timerVars == <<rawMode, clock, tState, tSeqNo, tUserData, timerSeq, timers,
               nextExpire, uringId, sqes, cqes, stack, panic, cancelled,
               fireLog, drainTrace>>

allocVars == <<free_list, bufs, total, free, bufSize, held, kept, allocHalt,
               calls, lastCall>>

hostVars == <<ioThreadState, hostMsgCount, QOutput, eventfd, vpc, vcall, hpc,
              hmsg, wakers>>

taskVars == <<taskSet, running>>

tidVars == <<nsTasks, nsTids, nsTgids, thrTg, thrId, tgLeader, taskCount,
             lastUid, curThread>>

trapVars == <<tpc, schedState, stopCount, sigBlocked, sigIgnored, sigPending,
              trapOut>>

sqVars == <<sqHead, sqTail, sqSlots, aq, sqPending, sqPushed, sqRet>>

needFreeVars == <<needFreeRet>>

prefetchVars == <<prefetch>>

exitVars == <<exitRun>>

bootVars == <<rustMain>>

lockVars == <<locks>>

modeVars == <<modes>>

recvVars == <<recvMsg>>

\* The variables a subsystem's actions leave alone.
nonQLockVars == <<timerVars, allocVars, hostVars, taskVars, tidVars, trapVars, sqVars, needFreeVars, prefetchVars, exitVars, bootVars, lockVars, modeVars, recvVars>>

nonTimerVars == <<qlockVars, allocVars, hostVars, taskVars, tidVars, trapVars, sqVars, needFreeVars, prefetchVars, exitVars, bootVars, lockVars, modeVars, recvVars>>

nonAllocVars == <<qlockVars, timerVars, hostVars, taskVars, tidVars, trapVars, sqVars, needFreeVars, prefetchVars, exitVars, bootVars, lockVars, modeVars, recvVars>>

nonHostVars == <<qlockVars, timerVars, allocVars, taskVars, tidVars, trapVars, sqVars, needFreeVars, prefetchVars, exitVars, bootVars, lockVars, modeVars, recvVars>>

nonTaskVars == <<qlockVars, timerVars, allocVars, hostVars, tidVars, trapVars, sqVars, needFreeVars, prefetchVars, exitVars, bootVars, lockVars, modeVars, recvVars>>

nonTidVars == <<qlockVars, timerVars, allocVars, hostVars, taskVars, trapVars, sqVars, needFreeVars, prefetchVars, exitVars, bootVars, lockVars, modeVars, recvVars>>

nonTrapVars == <<qlockVars, timerVars, allocVars, hostVars, taskVars,
                 tidVars, sqVars, needFreeVars, prefetchVars, exitVars, bootVars, lockVars, modeVars, recvVars>>

nonSqVars == <<qlockVars, timerVars, allocVars, hostVars, taskVars, tidVars, trapVars, needFreeVars, prefetchVars, exitVars, bootVars, lockVars, modeVars, recvVars>>

nonNeedFreeVars == <<qlockVars, timerVars, allocVars, hostVars, taskVars, tidVars, trapVars, sqVars, prefetchVars, exitVars, bootVars, lockVars, modeVars, recvVars>>

nonPrefetchVars == <<qlockVars, timerVars, allocVars, hostVars, taskVars, tidVars, trapVars, sqVars, needFreeVars, exitVars, bootVars, lockVars, modeVars, recvVars>>

nonExitVars == <<qlockVars, timerVars, allocVars, hostVars, taskVars, tidVars, trapVars, sqVars, needFreeVars, prefetchVars, bootVars, lockVars, modeVars, recvVars>>

nonBootVars == <<qlockVars, timerVars, allocVars, hostVars, taskVars, tidVars, trapVars, sqVars, needFreeVars, prefetchVars, exitVars, lockVars, modeVars, recvVars>>

nonLockVars == <<qlockVars, timerVars, allocVars, hostVars, taskVars, tidVars, trapVars, sqVars, needFreeVars, prefetchVars, exitVars, bootVars, modeVars, recvVars>>

nonModeVars == <<qlockVars, timerVars, allocVars, hostVars, taskVars, tidVars, trapVars, sqVars, needFreeVars, prefetchVars, exitVars, bootVars, lockVars, recvVars>>

nonRecvVars == <<qlockVars, timerVars, allocVars, hostVars, taskVars, tidVars, trapVars, sqVars, needFreeVars, prefetchVars, exitVars, bootVars, lockVars, modeVars>>

vars == <<locked, queue, waiterBit, lpc, lockRet, woken,
          rawMode, clock, tState, tSeqNo, tUserData, timerSeq, timers,
          nextExpire, uringId, sqes, cqes, stack, panic, cancelled, fireLog,
          drainTrace,
          free_list, bufs, total, free, bufSize, held, kept, allocHalt, calls,
          lastCall,
          ioThreadState, hostMsgCount, QOutput, eventfd, vpc, vcall, hpc,
          hmsg, wakers, taskSet, running,
          nsTasks, nsTids, nsTgids, thrTg, thrId, tgLeader, taskCount, lastUid,
          curThread,
          tpc, schedState, stopCount, sigBlocked, sigIgnored, sigPending, trapOut,
          sqHead, sqTail, sqSlots, aq, sqPending, sqPushed, sqRet,
          needFreeRet,
          prefetch,
          exitRun,
          rustMain,
          locks,
          modes,
          recvMsg>>

(***************************************************************************)
(*                               QLock                                     *)
(***************************************************************************)

\* Number of tasks that contend for the one QLock of the model.
NumTasks == 3

Tasks == 1..NumTasks

\* Event masks are sets of bit positions.  EventRegister(task, entry, 1)
\* registers bit 0; Notify(!0) notifies with every bit set.
MaskOne == {0}

MaskAll == 0..63

\* Queue::EventRegister: sets the entry's mask and links the entry at the
\* tail of the list.
EventRegister(q, t, mask) == Append(q, [task |-> t, mask |-> mask])

\* Queue::EventUnregister: unlinks the task's entry, wherever it is.
EventUnregister(q, t) == SelectSeq(q, LAMBDA e : e.task /= t)

\* WaitEntry::Notify for one entry: the callback runs iff the masks overlap.
EntryNotified(e, mask) == (mask \cap e.mask) /= {}

\* Queue::Notify(mask): walks the list; every entry whose mask overlaps gets
\* its ThreadContext callback, waiter.Trigger(waiterID), which sets the bit.
QueueNotify(q, mask, bits) ==
    [t \in Tasks |->
        IF \E i \in 1..Len(q) : q[i].task = t /\ EntryNotified(q[i], mask)
        THEN TRUE
        ELSE bits[t]]

\* The record kept of one Unlock's notifications while any notified task has
\* still to come back to the head of Lock's loop: those tasks, whether one
\* or more of them took the lock when they came back (won: 0, 1, or 2 for
\* two and more), and whether any left the call with an error (left).  The
\* record is kept only in the behaviours that start with it switched on.
NoneWoken(on) == [on |-> on, set |-> {}, won |-> 0, left |-> 0]

\* The tasks an Unlock's Queue::Notify(!0) reaches: those with an entry on
\* the queue (every mask overlaps !0).
NotifiedBy(q) == {q[i].task : i \in 1..Len(q)}

\* Once the last notified task is accounted for the record is dropped.
Settled(r) == IF r.set = {} THEN NoneWoken(r.on) ELSE r

\* The record after a Lock attempt by t that took the lock or did not.
AfterAttempt(t, success) ==
    IF t \in woken.set
    THEN [woken EXCEPT !.set = @ \ {t},
                       !.won = IF success /\ @ < 2 THEN @ + 1 ELSE @]
    ELSE woken

\* The record after t has returned ErrInterrupted from Lock.
AfterInterrupt(t) ==
    IF t \in woken.set
    THEN [woken EXCEPT !.set = @ \ {t}, !.left = 1]
    ELSE woken

\* The record after an Unlock has notified the entries of q.
AfterUnlock(q) ==
    IF woken.on /\ NotifiedBy(q) /= {}
    THEN [on |-> TRUE, set |-> NotifiedBy(q), won |-> 0, left |-> 0]
    ELSE woken

InitQLock(on) ==
    /\ locked = FALSE
    /\ queue = <<>>
    /\ waiterBit = [t \in Tasks |-> FALSE]
    /\ lpc = [t \in Tasks |-> "idle"]
    /\ lockRet = [t \in Tasks |-> "none"]
    /\ woken = NoneWoken(on)

\* A buggy Lock whose fast path takes the lock without looking at the flag.
LockAttemptNoCheck(t) ==
    /\ lpc[t] \in {"idle", "retry"}
    /\ locked' = TRUE
    /\ lpc' = [lpc EXCEPT ![t] = "holding"]
    /\ lockRet' = [lockRet EXCEPT ![t] = "Ok"]
    /\ woken' = Settled(AfterAttempt(t, TRUE))
    /\ UNCHANGED <<queue, waiterBit>>
    /\ UNCHANGED nonQLockVars

\* A Lock whose slow path registers without clearing the task's waiter bit.
LockAttemptKeepsBit(t) ==
    /\ lpc[t] \in {"idle", "retry"}
    /\ IF locked = FALSE
       THEN /\ locked' = TRUE
            /\ lpc' = [lpc EXCEPT ![t] = "holding"]
            /\ lockRet' = [lockRet EXCEPT ![t] = "Ok"]
            /\ UNCHANGED <<queue, waiterBit>>
       ELSE /\ queue' = EventRegister(queue, t, MaskOne)
            /\ lpc' = [lpc EXCEPT ![t] = "blocked"]
            /\ UNCHANGED <<locked, lockRet, waiterBit>>
    /\ woken' = Settled(AfterAttempt(t, locked = FALSE))
    /\ UNCHANGED nonQLockVars

\* QLock::Lock, the block under self.locked.lock() (qlock.rs 64-82): either
\* the fast path takes the lock and returns the guard, or the task clears its
\* waiter bit and registers its general entry, all under the inner mutex.
LockAttempt(t) ==
    /\ lpc[t] \in {"idle", "retry"}
    /\ IF locked = FALSE
       THEN /\ locked' = TRUE
            /\ lpc' = [lpc EXCEPT ![t] = "holding"]
            /\ lockRet' = [lockRet EXCEPT ![t] = "Ok"]
            /\ UNCHANGED <<queue, waiterBit>>
       ELSE /\ waiterBit' = [waiterBit EXCEPT ![t] = FALSE]
            /\ queue' = EventRegister(queue, t, MaskOne)
            /\ lpc' = [lpc EXCEPT ![t] = "blocked"]
            /\ UNCHANGED <<locked, lockRet>>
    /\ woken' = Settled(AfterAttempt(t, locked = FALSE))
    /\ UNCHANGED nonQLockVars

\* Blocker::BlockGeneral returning Ok: the registered entry has fired.
BlockGeneralOk(t) ==
    /\ lpc[t] = "blocked"
    /\ waiterBit[t]
    /\ lpc' = [lpc EXCEPT ![t] = "unregOk"]
    /\ UNCHANGED <<locked, queue, waiterBit, lockRet, woken>>
    /\ UNCHANGED nonQLockVars

\* Blocker::BlockGeneral returning ErrInterrupted: a signal was posted to the
\* blocked task.
BlockGeneralInterrupted(t) ==
    /\ lpc[t] = "blocked"
    /\ lpc' = [lpc EXCEPT ![t] = "unregErr"]
    /\ UNCHANGED <<locked, queue, waiterBit, lockRet, woken>>
    /\ UNCHANGED nonQLockVars

\* A Lock that returns the error of BlockGeneral without unregistering.
LockUnregisterOnOkOnly(t) ==
    /\ lpc[t] \in {"unregOk", "unregErr"}
    /\ IF lpc[t] = "unregOk"
       THEN /\ queue' = EventUnregister(queue, t)
            /\ lpc' = [lpc EXCEPT ![t] = "retry"]
            /\ UNCHANGED <<lockRet, woken>>
       ELSE /\ lpc' = [lpc EXCEPT ![t] = "idle"]
            /\ lockRet' = [lockRet EXCEPT ![t] = "Err"]
            /\ woken' = Settled(AfterInterrupt(t))
            /\ UNCHANGED queue
    /\ UNCHANGED <<locked, waiterBit>>
    /\ UNCHANGED nonQLockVars

\* The EventUnregister after BlockGeneral (qlock.rs 84-93): on Ok the loop is
\* taken again, on Err the call returns the error.
LockUnregister(t) ==
    /\ lpc[t] \in {"unregOk", "unregErr"}
    /\ queue' = EventUnregister(queue, t)
    /\ IF lpc[t] = "unregOk"
       THEN /\ lpc' = [lpc EXCEPT ![t] = "retry"]
            /\ UNCHANGED <<lockRet, woken>>
       ELSE /\ lpc' = [lpc EXCEPT ![t] = "idle"]
            /\ lockRet' = [lockRet EXCEPT ![t] = "Err"]
            /\ woken' = Settled(AfterInterrupt(t))
    /\ UNCHANGED <<locked, waiterBit>>
    /\ UNCHANGED nonQLockVars

\* An Unlock that clears the flag and notifies nobody.
UnlockNoNotify(t) ==
    /\ lpc[t] = "holding"
    /\ locked = TRUE
    /\ locked' = FALSE
    /\ lpc' = [lpc EXCEPT ![t] = "idle"]
    /\ UNCHANGED <<queue, waiterBit, lockRet, woken>>
    /\ UNCHANGED nonQLockVars

\* QLock::Unlock (qlock.rs 51-58), run by the drop of the QLockGuard
\* (qlock.rs 117-121): under the inner mutex the flag is cleared and every
\* registered entry is notified.  The assert is the guard locked = TRUE.
Unlock(t) ==
    /\ lpc[t] = "holding"
    /\ locked = TRUE
    /\ locked' = FALSE
    /\ waiterBit' = QueueNotify(queue, MaskAll, waiterBit)
    /\ lpc' = [lpc EXCEPT ![t] = "idle"]
    /\ woken' = AfterUnlock(queue)
    /\ UNCHANGED <<queue, lockRet>>
    /\ UNCHANGED nonQLockVars

NextQLock ==
    \E t \in Tasks :
        \/ LockAttempt(t)
        \/ BlockGeneralOk(t)
        \/ BlockGeneralInterrupted(t)
        \/ LockUnregister(t)
        \/ Unlock(t)

(***************************************************************************)
(*                               Timers                                    *)
(***************************************************************************)

\* The timers of the model, by RawTimerInternal.Id.
TimerIds == {1, 2}

\* The kernel threads that run timer calls: the tasks' vCPU that calls Reset
\* and Stop, and the CQE worker that handles the io_uring completions.
Callers == {1}

Workers == {2}

Threads == Callers \cup Workers

\* Cap on the number of Reset calls that bump a sequence number, over all
\* timers: no Reset is started once the SeqNo values add up to the cap.
MaxResets == 3

\* Cap on the depth of nested timer calls of one thread
\* (Trigger -> Fire -> Reset -> Trigger ...).
MaxDepth == 3

\* The clock advances at most this many times.
MaxTicks == 2

\* TimerStore::PROCESS_TIME (timer_store.rs 84).
PROCESS_TIME == 30000

\* The clock value at construction and the length of one clock step.
BootTime == 100000

TickSteps == {PROCESS_TIME}

\* The deltas handed to Reset by callers, and the deltas a notifier's
\* Timeout() returns (0: one-shot, > 0: the period of a periodic timer).
Deltas == {0, 20000, 50000}

NotifierDeltas == {0, 50000}

\* Option<TimerUnit>::None in TimerStoreIntern.timers.
NoUnit == [timerId |-> 0, seqNo |-> 0, expire |-> 0]

\* TimerUnit (timer_store.rs 27-31).
TimerUnit(id, seq, expire) == [timerId |-> id, seqNo |-> seq, expire |-> expire]

\* Ord for TimerUnit (timer_store.rs 47-55): by expire, then by timerId.
UnitLess(a, b) ==
    IF a.expire /= b.expire THEN a.expire < b.expire ELSE a.timerId < b.timerId

\* Two units the BTreeSet takes for the same element: Ordering::Equal.
UnitSameKey(a, b) == a.expire = b.expire /\ a.timerId = b.timerId

\* BTreeSet::insert: an element that compares Equal to a stored one is not
\* inserted (the stored one stays).
SeqInsert(set, tu) ==
    IF \E e \in set : UnitSameKey(e, tu) THEN set ELSE set \cup {tu}

\* BTreeSet::remove: removes the element that compares Equal.
SeqRemove(set, tu) == {e \in set : ~UnitSameKey(e, tu)}

\* BTreeSet::first: the least element; only used on a non-empty set.
SeqFirst(set) == CHOOSE e \in set : \A o \in set : o = e \/ UnitLess(e, o)

\* The state the TimerStore code works on, as one record: the fields of
\* TimerStoreIntern, the submitted io_uring entries, and the assert outcome.
StoreNow ==
    [timerSeq |-> timerSeq, timers |-> timers, nextExpire |-> nextExpire,
     uringId |-> uringId, sqes |-> sqes, panic |-> panic]

\* The user data of io_uring entries: a raw timeout's names its timer and
\* sequence number, an aggregate timeout's names its slot.
RawUd(id, seq) == [id |-> id, seq |-> seq, slot |-> 0]

AggUd(n) == [id |-> 0, seq |-> 0, slot |-> n]

\* userData: 0 and uringId: 0, the values at construction.
NoUd == [id |-> 0, seq |-> 0, slot |-> 0]

\* IOURING.AsyncTimerRemove(userData): the entry with that user data is
\* removed if it is still submitted; a completion already posted stays.
AsyncTimerRemove(entries, ud) == {e \in entries : e.ud /= ud}

\* The user data of a new aggregate timeout: the first free slot.
FreshUd(S) ==
    CHOOSE n \in 1..(Cardinality(S.sqes) + Cardinality(cqes) + 2) :
        /\ AggUd(n) /= S.uringId
        /\ \A e \in S.sqes \cup cqes : e.ud /= AggUd(n)
        /\ \A m \in 1..(n - 1) :
              \/ AggUd(m) = S.uringId
              \/ \E e \in S.sqes \cup cqes : e.ud = AggUd(m)

\* TimerStoreIntern::RemoveTimer (timer_store.rs 175-186).
RemoveTimer(S, timerId, seqNo) ==
    IF S.timers[timerId] = NoUnit
    THEN S
    ELSE LET tu == S.timers[timerId] IN
         [S EXCEPT !.timers = [@ EXCEPT ![timerId] = NoUnit],
                   !.timerSeq = SeqRemove(@, tu),
                   !.panic = IF tu.seqNo /= seqNo /\ @ = "none"
                             THEN "RemoveTimer" ELSE @]

\* A ResetTimerLocked that inserts without removing the entry of the
\* sequence number before.
ResetTimerLockedKeepsOld(S, timerId, seqNo, timeout) ==
    LET tu == TimerUnit(timerId, seqNo, clock + timeout)
    IN  [S EXCEPT !.timerSeq = SeqInsert(@, tu),
                  !.timers = [@ EXCEPT ![timerId] = tu]]

\* TimerStoreIntern::ResetTimerLocked (timer_store.rs 189-205).
ResetTimerLocked(S, timerId, seqNo, timeout) ==
    LET S1 == IF seqNo > 0 THEN RemoveTimer(S, timerId, seqNo - 1) ELSE S
        tu == TimerUnit(timerId, seqNo, clock + timeout)
    IN  [S1 EXCEPT !.timerSeq = SeqInsert(@, tu),
                   !.timers = [@ EXCEPT ![timerId] = tu]]

\* A RemoveUringTimer that forgets the timeout without removing it.
RemoveUringTimerForgets(S) == [S EXCEPT !.nextExpire = 0]

\* TimerStoreIntern::RemoveUringTimer (timer_store.rs 207-212).
RemoveUringTimer(S) ==
    IF S.nextExpire /= 0
    THEN [S EXCEPT !.sqes = AsyncTimerRemove(@, S.uringId), !.nextExpire = 0]
    ELSE S

\* TimerStoreIntern::SetUringTimer (timer_store.rs 214-224); IOURING.Timeout
\* submits the aggregate timeout and returns its user data.
SetUringTimer(S, expire) ==
    LET exp == IF expire < clock THEN clock + 2000 ELSE expire
        ud == AggUd(FreshUd(S))
    IN  [S EXCEPT !.panic = IF S.nextExpire /= 0 /\ @ = "none"
                            THEN "SetUringTimer" ELSE @,
                  !.nextExpire = exp,
                  !.uringId = ud,
                  !.sqes = @ \cup {[k |-> "agg", dl |-> exp, ud |-> ud]}]

\* A GetFirst that hands out the first unit whatever its expire.
GetFirstUnitNoTest(S, now) ==
    IF S.timerSeq = {} THEN NoUnit ELSE SeqFirst(S.timerSeq)

\* TimerStoreIntern::GetFirst (timer_store.rs 226-240): the unit it returns,
\* NoUnit for None.
GetFirstUnit(S, now) ==
    IF S.timerSeq = {} THEN NoUnit
    ELSE IF SeqFirst(S.timerSeq).expire > now THEN NoUnit
    ELSE SeqFirst(S.timerSeq)

\* A GetFirst that hands out the first unit and leaves it in the store.
GetFirstStoreKeeps(S, now) == S

\* TimerStoreIntern::GetFirst: the store it leaves.
GetFirstStore(S, now) ==
    LET tu == GetFirstUnit(S, now) IN
    IF tu = NoUnit THEN S ELSE RemoveTimer(S, tu.timerId, tu.seqNo)

\* A last block of Trigger that leaves the aggregate timeout as it is when
\* the call was not started by it and it has not passed.
TriggerFinalStoreLeaves(S, expire, now) ==
    IF expire = S.nextExpire
    THEN IF S.timerSeq = {} THEN S
         ELSE SetUringTimer([S EXCEPT !.nextExpire = 0],
                            SeqFirst(S.timerSeq).expire)
    ELSE IF now > S.nextExpire
    THEN LET S1 == RemoveUringTimer(S) IN
         IF S1.timerSeq = {} THEN S1
         ELSE SetUringTimer(S1, SeqFirst(S1.timerSeq).expire)
    ELSE S

\* The last block of TimerStore::Trigger (timer_store.rs 104-151), under the
\* store lock; now is the value the drain loop computed last.
TriggerFinalStore(S, expire, now) ==
    IF expire = S.nextExpire
    THEN IF S.timerSeq = {} THEN S
         ELSE SetUringTimer([S EXCEPT !.nextExpire = 0],
                            SeqFirst(S.timerSeq).expire)
    ELSE IF now > S.nextExpire
    THEN LET S1 == RemoveUringTimer(S) IN
         IF S1.timerSeq = {} THEN S1
         ELSE SetUringTimer(S1, SeqFirst(S1.timerSeq).expire)
    ELSE IF S.timerSeq = {} THEN S
    ELSE IF SeqFirst(S.timerSeq).expire < S.nextExpire \/ S.nextExpire = 0
    THEN SetUringTimer(RemoveUringTimer(S), SeqFirst(S.timerSeq).expire)
    ELSE S

\* Writes a store record back to the variables.
SetStore(S) ==
    /\ timerSeq' = S.timerSeq
    /\ timers' = S.timers
    /\ nextExpire' = S.nextExpire
    /\ uringId' = S.uringId
    /\ sqes' = S.sqes
    /\ panic' = S.panic

\* A frame of a thread's call stack: f names the function, pc the position
\* in it; id/seq name the timer and sequence number, x the expire argument
\* of Trigger, the expire of the unit tu whose tu.Fire() the drain loop is
\* running, or the delta of a Reset, now the local of Trigger.  With
\* drainTrace, a Trigger frame inside its loop keeps in id and now the timer
\* id and the expire of the unit it fired last.
Frame(f, pc, id, seq, x, now) ==
    [f |-> f, pc |-> pc, id |-> id, seq |-> seq, x |-> x, now |-> now]

TriggerFrame(expire) == Frame("Trigger", "loop", 0, 0, expire, 0)

RECURSIVE SumSeqNo(_)

\* The sum of the SeqNo of the timers in ids.
SumSeqNo(ids) ==
    IF ids = {} THEN 0
    ELSE LET id == CHOOSE i \in ids : TRUE IN tSeqNo[id] + SumSeqNo(ids \ {id})

\* Whether one more Reset fits the cap.
MayReset == SumSeqNo(TimerIds) < MaxResets

Top(th) == stack[th][Len(stack[th])]

Popped(th) == SubSeq(stack[th], 1, Len(stack[th]) - 1)

HasTop(th, f, pc) ==
    /\ stack[th] /= <<>>
    /\ Top(th).f = f
    /\ Top(th).pc = pc

\* What Reset(delta) returns, in both modes: true only from the branch that
\* cancels a Running timer for delta = 0; the early return of a timer that is
\* not Running and the end of the arming branch return false
\* (raw_timer.rs 61-63, 70, 81 and 189-191, 204, 218).
ResetResult(id, delta) == delta = 0 /\ tState[id] = "Running"

\* What Stop() returns, in both modes: the constant false that ends StopRaw
\* and Stop (raw_timer.rs 136, 166).
StopResult(id) == FALSE

InitTimerTraced(raw, trace) ==
    /\ rawMode = raw
    /\ clock = BootTime
    /\ tState = [id \in TimerIds |-> "Stopped"]
    /\ tSeqNo = [id \in TimerIds |-> 0]
    /\ tUserData = [id \in TimerIds |-> NoUd]
    /\ timerSeq = {}
    /\ timers = [id \in TimerIds |-> NoUnit]
    /\ nextExpire = 0
    /\ uringId = NoUd
    /\ sqes = {}
    /\ cqes = {}
    /\ stack = [th \in Threads |-> <<>>]
    /\ panic = "none"
    /\ cancelled = {}
    /\ fireLog = [id |-> 0, seq |-> 0, out |-> "none"]
    /\ drainTrace = trace

InitTimer(raw) == InitTimerTraced(raw, FALSE)

\* A Reset that leaves the sequence number as it is.
NextSeqNoStuck(seq) == seq

\* t.SeqNo += 1 (raw_timer.rs 66, 76, 195, 210).
NextSeqNo(seq) == seq + 1

\* The clock advances.
Tick ==
    /\ panic = "none"
    /\ \E d \in TickSteps :
        /\ clock + d <= BootTime + MaxTicks * PROCESS_TIME
        /\ clock' = clock + d
    /\ UNCHANGED <<rawMode, timerObjVars, storeVars, sqes, cqes, stack, panic,
                   cancelled>>
    /\ UNCHANGED <<fireLog, drainTrace, nonTimerVars>>

\* The host's io_uring completes a submitted timeout whose deadline has come:
\* its completion is posted and waits for a CQE worker.
UringComplete ==
    /\ panic = "none"
    /\ \E e \in sqes :
        /\ e.dl <= clock
        /\ sqes' = sqes \ {e}
        /\ cqes' = cqes \cup {e}
    /\ UNCHANGED <<rawMode, clock, timerObjVars, storeVars, stack, panic,
                   cancelled>>
    /\ UNCHANGED <<fireLog, drainTrace, nonTimerVars>>

\* A CQE worker takes a posted completion: a raw timeout's calls
\* FireTimer(id, seq), the aggregate timeout's calls TIMER_STORE.Trigger(expire).
CqeDispatch(th) ==
    /\ panic = "none"
    /\ stack[th] = <<>>
    /\ \E e \in cqes :
        /\ cqes' = cqes \ {e}
        /\ stack' = [stack EXCEPT ![th] =
                        IF e.k = "raw"
                        THEN <<Frame("Fire", "check", e.ud.id, e.ud.seq, 0, 0)>>
                        ELSE <<TriggerFrame(e.dl)>>]
    /\ UNCHANGED <<rawMode, clock, timerObjVars, storeVars, sqes, panic,
                   cancelled>>
    /\ UNCHANGED <<fireLog, drainTrace, nonTimerVars>>

\* RawTimerInternal::ResetRaw (raw_timer.rs 55-82), all of it under the
\* timer's lock: the code run by Reset in raw mode.  stk is the caller's stack
\* once the call has returned.
ResetRawBody(th, id, delta, stk) ==
    /\ IF delta = 0
       THEN IF tState[id] /= "Running"
            THEN UNCHANGED <<tState, tSeqNo, tUserData, sqes, cancelled>>
            ELSE /\ tSeqNo' = [tSeqNo EXCEPT ![id] = NextSeqNo(@)]
                 /\ sqes' = AsyncTimerRemove(sqes, tUserData[id])
                 /\ cancelled' = cancelled \cup {<<id, tSeqNo[id]>>}
                 /\ UNCHANGED <<tState, tUserData>>
       ELSE /\ tState' = [tState EXCEPT ![id] = "Running"]
            /\ tSeqNo' = [tSeqNo EXCEPT ![id] = NextSeqNo(@)]
            /\ sqes' = sqes \cup {[k |-> "raw", dl |-> clock + delta,
                                   ud |-> RawUd(id, NextSeqNo(tSeqNo[id]))]}
            /\ tUserData' = [tUserData EXCEPT ![id] = RawUd(id, NextSeqNo(tSeqNo[id]))]
            /\ UNCHANGED cancelled
    /\ stack' = [stack EXCEPT ![th] = stk]
    /\ UNCHANGED <<storeVars, panic>>

\* RawTimer::Reset in batched mode (raw_timer.rs 181-219): the block under
\* the TIMER_STORE lock and the timer's lock; the call then goes on to
\* TIMER_STORE.Trigger(0), except on the early return.
ResetStoreBody(th, id, delta, stk) ==
    IF delta = 0
    THEN IF tState[id] /= "Running"
         THEN /\ stack' = [stack EXCEPT ![th] = stk]
              /\ UNCHANGED <<timerObjVars, storeVars, sqes, panic, cancelled>>
         ELSE /\ tState' = [tState EXCEPT ![id] = "Stopped"]
              /\ tSeqNo' = [tSeqNo EXCEPT ![id] = NextSeqNo(@)]
              /\ SetStore(RemoveTimer(StoreNow, id, tSeqNo[id]))
              /\ cancelled' = cancelled \cup {<<id, tSeqNo[id]>>}
              /\ stack' = [stack EXCEPT ![th] = Append(stk, TriggerFrame(0))]
              /\ UNCHANGED tUserData
    ELSE /\ tState' = [tState EXCEPT ![id] = "Running"]
         /\ tSeqNo' = [tSeqNo EXCEPT ![id] = NextSeqNo(@)]
         /\ SetStore(ResetTimerLocked(StoreNow, id, NextSeqNo(tSeqNo[id]), delta))
         /\ stack' = [stack EXCEPT ![th] = Append(stk, TriggerFrame(0))]
         /\ UNCHANGED <<tUserData, cancelled>>

\* RawTimer::Reset (raw_timer.rs 176-219).
ResetBody(th, id, delta, stk) ==
    IF rawMode
    THEN ResetRawBody(th, id, delta, stk)
    ELSE ResetStoreBody(th, id, delta, stk)

\* A thread calls timer.Reset(delta).
Reset(th, id, delta) ==
    /\ panic = "none"
    /\ stack[th] = <<>>
    /\ MayReset
    /\ ResetBody(th, id, delta, <<>>)
    /\ UNCHANGED <<rawMode, clock, cqes>>
    /\ UNCHANGED <<fireLog, drainTrace, nonTimerVars>>

\* RawTimer::StopRaw, the block under the timer's lock (raw_timer.rs 124-129).
StopRawBody(th, id) ==
    /\ tState' = [tState EXCEPT ![id] = "Stopped"]
    /\ IF tState[id] = "Running"
       THEN /\ stack' = [stack EXCEPT ![th] =
                           <<Frame("StopRaw", "remove", id, tUserData[id].seq, 0, 0)>>]
            /\ cancelled' = cancelled \cup {<<id, tSeqNo[id]>>}
       ELSE UNCHANGED <<stack, cancelled>>
    /\ UNCHANGED <<tSeqNo, tUserData, storeVars, sqes, panic>>

\* RawTimer::Stop in batched mode, the block under the TIMER_STORE lock and
\* the timer's lock (raw_timer.rs 149-159); Trigger(0) follows if the timer
\* was Running.
StopStoreBody(th, id) ==
    /\ tState' = [tState EXCEPT ![id] = "Stopped"]
    /\ IF tState[id] = "Running"
       THEN /\ SetStore(RemoveTimer(StoreNow, id, tSeqNo[id]))
            /\ stack' = [stack EXCEPT ![th] = <<TriggerFrame(0)>>]
            /\ cancelled' = cancelled \cup {<<id, tSeqNo[id]>>}
       ELSE UNCHANGED <<storeVars, sqes, panic, stack, cancelled>>
    /\ UNCHANGED <<tSeqNo, tUserData>>

\* A thread calls timer.Stop() (raw_timer.rs 144-167).
Stop(th, id) ==
    /\ panic = "none"
    /\ stack[th] = <<>>
    /\ IF rawMode THEN StopRawBody(th, id) ELSE StopStoreBody(th, id)
    /\ UNCHANGED <<rawMode, clock, cqes>>
    /\ UNCHANGED <<fireLog, drainTrace, nonTimerVars>>

\* RawTimer::StopRaw, after the lock is released: IOURING.AsyncTimerRemove of
\* the user data read under the lock (raw_timer.rs 131-136).
StopRawRemove(th) ==
    /\ panic = "none"
    /\ HasTop(th, "StopRaw", "remove")
    /\ sqes' = AsyncTimerRemove(sqes, RawUd(Top(th).id, Top(th).seq))
    /\ stack' = [stack EXCEPT ![th] = Popped(th)]
    /\ UNCHANGED <<rawMode, clock, timerObjVars, storeVars, cqes, panic,
                   cancelled>>
    /\ UNCHANGED <<fireLog, drainTrace, nonTimerVars>>

\* A Fire that ignores the sequence number it is given.
FireAcceptsAnySeq(id, seq) == tState[id] = "Running"

\* A Fire that ignores the timer's state.
FireAcceptsAnyState(id, seq) == seq = tSeqNo[id]

\* RawTimer::Fire, the test under the timer's lock (raw_timer.rs 225): the
\* fire goes on iff it is not out of date.
FireAccepts(id, seq) == seq = tSeqNo[id] /\ tState[id] = "Running"

\* RawTimer::Fire, the block under the timer's lock (raw_timer.rs 222-231).
FireCheck(th) ==
    /\ panic = "none"
    /\ HasTop(th, "Fire", "check")
    /\ IF FireAccepts(Top(th).id, Top(th).seq)
       THEN /\ tState' = [tState EXCEPT ![Top(th).id] = "Expired"]
            /\ stack' = [stack EXCEPT ![th] =
                           Append(Popped(th), [Top(th) EXCEPT !.pc = "notify"])]
       ELSE /\ stack' = [stack EXCEPT ![th] = Popped(th)]
            /\ UNCHANGED tState
    /\ fireLog' = [id |-> Top(th).id, seq |-> Top(th).seq,
                   out |-> IF Top(th).seq /= tSeqNo[Top(th).id] THEN "staleSeq"
                           ELSE IF tState[Top(th).id] /= "Running" THEN "notRunning"
                           ELSE "fired"]
    /\ UNCHANGED <<rawMode, clock, tSeqNo, tUserData, storeVars, sqes, cqes,
                   panic, cancelled>>
    /\ UNCHANGED <<drainTrace, nonTimerVars>>

\* RawTimer::Fire, timer.Timeout() (raw_timer.rs 233-234): the notifier runs
\* and returns the delta of the next period, or 0.
FireNotify(th) ==
    /\ panic = "none"
    /\ HasTop(th, "Fire", "notify")
    /\ \E delta \in NotifierDeltas :
        /\ delta > 0 => (Len(stack[th]) < MaxDepth /\ MayReset)
        /\ stack' = [stack EXCEPT ![th] =
                        IF delta > 0
                        THEN Append(Popped(th),
                                    [Top(th) EXCEPT !.pc = "reset", !.x = delta])
                        ELSE Popped(th)]
    /\ UNCHANGED <<rawMode, clock, timerObjVars, storeVars, sqes, cqes, panic,
                   cancelled>>
    /\ UNCHANGED <<fireLog, drainTrace, nonTimerVars>>

\* RawTimer::Fire, self.Reset(delta) (raw_timer.rs 235).
FireReset(th) ==
    /\ panic = "none"
    /\ HasTop(th, "Fire", "reset")
    /\ MayReset
    /\ ResetBody(th, Top(th).id, Top(th).x, Popped(th))
    /\ UNCHANGED <<rawMode, clock, cqes>>
    /\ UNCHANGED <<fireLog, drainTrace, nonTimerVars>>

\* TimerStore::Trigger, one turn of the drain loop (timer_store.rs 93-102):
\* GetFirst under the store lock, then tu.Fire() with the lock released.
TriggerLoop(th) ==
    /\ panic = "none"
    /\ HasTop(th, "Trigger", "loop")
    /\ LET now == clock + PROCESS_TIME
           tu == GetFirstUnit(StoreNow, now)
       IN  /\ SetStore(GetFirstStore(StoreNow, now))
           /\ stack' = [stack EXCEPT ![th] =
                 IF tu = NoUnit
                 THEN Append(Popped(th), [Top(th) EXCEPT !.pc = "final", !.now = now])
                 ELSE Append(Append(Popped(th),
                                    IF drainTrace
                                    THEN [Top(th) EXCEPT !.id = tu.timerId,
                                                         !.now = tu.expire]
                                    ELSE Top(th)),
                             Frame("Fire", "check", tu.timerId, tu.seqNo,
                                   tu.expire, 0))]
    /\ UNCHANGED <<rawMode, clock, timerObjVars, cqes, cancelled>>
    /\ UNCHANGED <<fireLog, drainTrace, nonTimerVars>>

\* TimerStore::Trigger, the block after the loop (timer_store.rs 104-151).
TriggerFinal(th) ==
    /\ panic = "none"
    /\ HasTop(th, "Trigger", "final")
    /\ SetStore(TriggerFinalStore(StoreNow, Top(th).x, Top(th).now))
    /\ stack' = [stack EXCEPT ![th] = Popped(th)]
    /\ UNCHANGED <<rawMode, clock, timerObjVars, cqes, cancelled>>
    /\ UNCHANGED <<fireLog, drainTrace, nonTimerVars>>

NextTimer ==
    \/ Tick
    \/ UringComplete
    \/ \E th \in Workers : CqeDispatch(th)
    \/ \E th \in Callers :
         \/ \E id \in TimerIds : \E delta \in Deltas : Reset(th, id, delta)
         \/ \E id \in TimerIds : Stop(th, id)
    \/ \E th \in Threads :
         \/ StopRawRemove(th)
         \/ FireCheck(th)
         \/ FireNotify(th)
         \/ FireReset(th)
         \/ TriggerLoop(th)
         \/ TriggerFinal(th)

\* The steps of the batched mode.
NextTimerStore ==
    \/ Tick
    \/ UringComplete
    \/ \E th \in Workers : CqeDispatch(th)
    \/ \E th \in Callers :
         \/ \E id \in TimerIds : \E delta \in Deltas : Reset(th, id, delta)
         \/ \E id \in TimerIds : Stop(th, id)
    \/ \E th \in Threads :
         \/ FireCheck(th)
         \/ FireNotify(th)
         \/ FireReset(th)
         \/ TriggerLoop(th)
         \/ TriggerFinal(th)

(***************************************************************************)
(*                          Heap allocator                                 *)
(***************************************************************************)

CLASS_CNT == 16

FREE_THRESHOLD == 30

BUFF_THRESHOLD == 50

FREE_BATCH == 10

ORDER == 33

\* size_of::<usize>() on the x86_64 target.
WordSize == 8

\* The arena handed to ListAllocator::Add: 1 MiB at the 1 MiB mark.
ArenaStart == 2^20

ArenaSize == 2^20

\* Most blocks callers hold at a time, and most calls made into the allocator.
MaxHeld == 2

MaxCalls == 9

\* The (size, align) pairs callers ask with: class 12 through its alignment,
\* class 15 through its size and through its alignment (both parked in
\* tier 2 on dealloc) and class 19 (above CLASS_CNT).
Layouts ==
    { [size |-> 100, align |-> 4096],
      [size |-> 20000, align |-> 8],
      [size |-> 0, align |-> 32768],
      [size |-> 524288, align |-> 8] }

Max(a, b) == IF a >= b THEN a ELSE b

Min(a, b) == IF a <= b THEN a ELSE b

\* usize::next_power_of_two: the smallest power of two >= n (1 for n = 0).
RECURSIVE NextPow2From(_, _)
NextPow2From(p, n) == IF p >= n THEN p ELSE NextPow2From(2 * p, n)

NextPow2(n) == NextPow2From(1, n)

\* prev_power_of_two: the largest power of two <= n, n > 0.
RECURSIVE PrevPow2From(_, _)
PrevPow2From(p, n) == IF 2 * p > n THEN p ELSE PrevPow2From(2 * p, n)

prev_power_of_two(n) == PrevPow2From(1, n)

\* n & (!n + 1): the lowest set bit of n, 0 for n = 0.
RECURSIVE LowBitFrom(_, _)
LowBitFrom(p, n) == IF n % (2 * p) # 0 THEN p ELSE LowBitFrom(2 * p, n)

LowBit(n) == IF n = 0 THEN 0 ELSE LowBitFrom(1, n)

\* usize::trailing_zeros of a power of two.
RECURSIVE TrailingZerosFrom(_, _)
TrailingZerosFrom(c, n) == IF n <= 1 THEN c ELSE TrailingZerosFrom(c + 1, n \div 2)

trailing_zeros(n) == TrailingZerosFrom(0, n)

\* A size computation that forgets the alignment.
LayoutSizeNoAlign(layout) == Max(NextPow2(layout.size), WordSize)

\* The block size alloc, dealloc and the heap compute from a layout.
LayoutSize(layout) ==
    Max(NextPow2(layout.size), Max(layout.align, WordSize))

\* ptr ^ (1 << class): ptr with bit number class flipped.
Buddy(ptr, class) ==
    IF (ptr \div 2^class) % 2 = 0 THEN ptr + 2^class ELSE ptr - 2^class

\* The list without its first entry equal to x.
RECURSIVE ListRemove(_, _)
ListRemove(s, x) ==
    IF s = <<>> THEN <<>>
    ELSE IF Head(s) = x THEN Tail(s)
    ELSE <<Head(s)>> \o ListRemove(Tail(s), x)

ListHas(s, x) == \E i \in 1..Len(s) : s[i] = x

EmptyHeap == [c \in 0..(ORDER - 1) |-> <<>>]

\* Heap::add_to_heap: cut [start, end) into naturally aligned power-of-two
\* blocks and push each on the list of its order.
RECURSIVE AddBlocks(_, _, _)
AddBlocks(fl, current_start, end) ==
    IF current_start + WordSize > end THEN fl
    ELSE LET size == Min(LowBit(current_start),
                         prev_power_of_two(end - current_start))
         IN  AddBlocks([fl EXCEPT ![trailing_zeros(size)] = <<current_start>> \o @],
                       current_start + size, end)

add_to_heap(fl, start, end) ==
    AddBlocks(fl, ((start + WordSize - 1) \div WordSize) * WordSize,
              (end \div WordSize) * WordSize)

\* Heap::alloc, the split loop: for j from i down to class + 1, pop a block
\* of order j and push its upper half, then its lower half, on order j - 1.
RECURSIVE SplitDown(_, _, _)
SplitDown(fl, j, class) ==
    IF j <= class THEN fl
    ELSE LET block == Head(fl[j])
         IN  SplitDown([fl EXCEPT ![j] = Tail(@),
                                  ![j - 1] = <<block, block + 2^(j - 1)>> \o @],
                       j - 1, class)

\* Heap::alloc: take the head of the first non-empty order >= class, split
\* down to class. ok = FALSE is Err(()).
HeapAlloc(fl, layout) ==
    LET class == trailing_zeros(LayoutSize(layout))
        cand  == {i \in class..(ORDER - 1) : fl[i] # <<>>}
    IN  IF cand = {} THEN [ok |-> FALSE, fl |-> fl, ptr |-> 0]
        ELSE LET i  == CHOOSE x \in cand : \A y \in cand : x <= y
                 f2 == SplitDown(fl, i, class)
             IN  [ok |-> TRUE, fl |-> [f2 EXCEPT ![class] = Tail(@)],
                  ptr |-> Head(f2[class])]

\* Heap::dealloc, the merge loop: while the buddy of the block at the head of
\* its order is in the same list, unlink both and push the merged block one
\* order up.
RECURSIVE MergeUp(_, _, _)
MergeUp(fl, current_ptr, current_class) ==
    IF current_class >= ORDER THEN fl
    ELSE LET buddy == Buddy(current_ptr, current_class)
         IN  IF ListHas(fl[current_class], buddy)
             THEN LET lower == Min(current_ptr, buddy)
                      rest  == Tail(ListRemove(fl[current_class], buddy))
                  IN  MergeUp([fl EXCEPT ![current_class] = rest,
                                         ![current_class + 1] = <<lower>> \o @],
                              lower, current_class + 1)
             ELSE fl

\* Heap::dealloc. The statistics of the heap (user, allocated, total) are
\* read by no code of the allocator and are left out.
HeapDealloc(fl, ptr, layout) ==
    LET class == trailing_zeros(LayoutSize(layout))
    IN  MergeUp([fl EXCEPT ![class] = <<ptr>> \o @], ptr, class)

\* The reserve of each class's FreeMemBlockMgr in ListAllocator::Empty.
Reserve(class) ==
    CASE class \in 0..2  -> 0
      [] class \in 3..5  -> 128
      [] class \in 6..8  -> 64
      [] class \in 9..10 -> 32
      [] class = 11      -> 16
      [] class = 12      -> 1024
      [] class = 13      -> 16
      [] OTHER           -> 8

\* The allocator as a value: the operations below are functions of it.
AllocNow ==
    [free_list |-> free_list, bufs |-> bufs, total |-> total, free |-> free,
     bufSize |-> bufSize, halt |-> allocHalt]

\* ListAllocator::Empty
Empty ==
    [free_list |-> EmptyHeap, bufs |-> [c \in 0..(CLASS_CNT - 1) |-> <<>>],
     total |-> 0, free |-> 0, bufSize |-> 0, halt |-> "none"]

AddToHead(A, start, end) ==
    [A EXCEPT !.free_list = add_to_heap(@, start, end),
              !.total = @ + (end - start),
              !.free = @ + (end - start)]

\* ListAllocator::Add: the arena goes to the heap in chunks of at most 1 GiB.
RECURSIVE AddFrom(_, _, _)
AddFrom(A, start, end) ==
    IF start + 2^30 < end
    THEN AddFrom(AddToHead(A, start, start + 2^30), start + 2^30, end)
    ELSE IF start < end THEN AddToHead(A, start, end) ELSE A

Add(A, start, size) == AddFrom(A, start, start + size)

\* The range test of dealloc, range.Contains(addr) and
\* range.Contains(addr + size), on the range Add stored. Range is defined
\* outside the files at hand; the test is taken to pass exactly for the
\* blocks that lie inside the arena.
InRange(addr, size) ==
    ArenaStart <= addr /\ addr + size <= ArenaStart + ArenaSize

\* A NeedFree that rounds the 30% threshold up instead of down.
NeedFreeRoundUp(A) ==
    /\ (A.total * FREE_THRESHOLD + 99) \div 100 > A.free
    /\ (A.free * BUFF_THRESHOLD) \div 100 < A.bufSize

NeedFree(A) ==
    /\ (A.total * FREE_THRESHOLD) \div 100 > A.free
    /\ (A.free * BUFF_THRESHOLD) \div 100 < A.bufSize

\* GlobalAlloc::alloc: a block parked in tier 2 if the class has one, else a
\* block of the buddy heap; halt = "OOM" is handleError followed by loop {}.
AllocBlock(A, layout) ==
    LET size  == LayoutSize(layout)
        class == trailing_zeros(size)
    IN  IF 3 <= class /\ class < CLASS_CNT /\ A.bufs[class] # <<>>
        THEN [ptr |-> Head(A.bufs[class]), size |-> size, from |-> "tier2",
              A   |-> [A EXCEPT !.bufs[class] = Tail(@),
                                !.bufSize = @ - size]]
        ELSE LET r == HeapAlloc(A.free_list, layout)
             IN  IF ~r.ok
                 THEN [ptr |-> 0, size |-> size, from |-> "none",
                       A   |-> [A EXCEPT !.halt = "OOM"]]
                 ELSE [ptr |-> r.ptr, size |-> size, from |-> "heap",
                       A   |-> [A EXCEPT !.free_list = r.fl,
                                         !.free = @ - size]]

\* A dealloc that does not test the range.
DeallocBlockNoRangeTest(A, ptr, layout) ==
    LET size  == LayoutSize(layout)
        class == trailing_zeros(size)
        A1 == [A EXCEPT !.free = @ + size, !.bufSize = @ + size]
    IN  IF class < CLASS_CNT
        THEN IF ptr % size # 0
             THEN [A1 EXCEPT !.halt = "Push"]
             ELSE [A1 EXCEPT !.bufs[class] = Append(@, ptr)]
        ELSE [A1 EXCEPT !.free_list = HeapDealloc(@, ptr, layout)]

\* GlobalAlloc::dealloc: a block outside the range is dropped; a block of a
\* class below CLASS_CNT is appended to its tier-2 list (MemList::Push
\* asserts the address is a multiple of the class size), a larger one goes
\* back to the buddy heap.
DeallocBlock(A, ptr, layout) ==
    LET size  == LayoutSize(layout)
        class == trailing_zeros(size)
    IN  IF ~InRange(ptr, size) THEN A
        ELSE LET A1 == [A EXCEPT !.free = @ + size, !.bufSize = @ + size]
             IN  IF class < CLASS_CNT
                 THEN IF ptr % size # 0
                      THEN [A1 EXCEPT !.halt = "Push"]
                      ELSE [A1 EXCEPT !.bufs[class] = Append(@, ptr)]
                 ELSE [A1 EXCEPT !.free_list = HeapDealloc(@, ptr, layout)]

\* FreeMemBlockMgr::FreeMultiple on class idx: hand blocks from the head of
\* the list back to the heap until count were handed or the list is down to
\* its reserve; cnt is the number handed back.
RECURSIVE FreeMultiple(_, _, _, _)
FreeMultiple(A, idx, i, count) ==
    IF i = count \/ Len(A.bufs[idx]) <= Reserve(idx) THEN [A |-> A, cnt |-> i]
    ELSE FreeMultiple(
             [A EXCEPT !.bufs[idx] = Tail(@),
                       !.free_list = HeapDealloc(@, Head(A.bufs[idx]),
                                         [size |-> 2^idx, align |-> 2^idx])],
             idx, i + 1, count)

\* A drain pass that visits the classes from the smallest up.
RECURSIVE FreeFromSmallest(_, _, _)
FreeFromSmallest(A, i, count) ==
    IF i >= CLASS_CNT \/ ~NeedFree(A) \/ count = FREE_BATCH
    THEN [A |-> A, ret |-> count > 0]
    ELSE LET r == FreeMultiple(A, i, 0, FREE_BATCH - count)
         IN  FreeFromSmallest([r.A EXCEPT !.bufSize = @ - r.cnt * 2^i],
                              i + 1, count + r.cnt)

\* ListAllocator::Free from iteration i with count blocks already freed.
RECURSIVE FreeFrom(_, _, _)
FreeFrom(A, i, count) ==
    IF i >= CLASS_CNT \/ ~NeedFree(A) \/ count = FREE_BATCH
    THEN [A |-> A, ret |-> count > 0]
    ELSE LET idx == CLASS_CNT - i - 1
             r   == FreeMultiple(A, idx, 0, FREE_BATCH - count)
         IN  FreeFrom([r.A EXCEPT !.bufSize = @ - r.cnt * 2^idx],
                      i + 1, count + r.cnt)

\* A booted kernel: the whole arena was handed out in blocks of class 15,
\* and the first BootParked of them came back and sit in tier 2.
BootLayout == [size |-> 2^15, align |-> WordSize]

BootParked == Reserve(15) + 1

BootKept == ArenaSize \div 2^15 - BootParked

RECURSIVE BootAlloc(_, _, _)
BootAlloc(A, n, got) ==
    IF n = 0 THEN [A |-> A, got |-> got]
    ELSE LET r == AllocBlock(A, BootLayout)
         IN  IF r.ptr = 0 THEN [A |-> r.A, got |-> got]
             ELSE BootAlloc(r.A, n - 1, Append(got, r.ptr))

RECURSIVE BootDealloc(_, _)
BootDealloc(A, ptrs) ==
    IF ptrs = <<>> THEN A
    ELSE LET A1 == DeallocBlock(A, Head(ptrs), BootLayout)
         IN  IF A1.halt # "none" THEN A1 ELSE BootDealloc(A1, Tail(ptrs))

Fresh == Add(Empty, ArenaStart, ArenaSize)

Booted ==
    LET a == BootAlloc(Fresh, BootKept + BootParked, <<>>)
    IN  [A    |-> BootDealloc(a.A, SubSeq(a.got, 1, BootParked)),
         kept |-> {[ptr |-> a.got[i], layout |-> BootLayout,
                    size |-> LayoutSize(BootLayout), from |-> "heap"] :
                       i \in (BootParked + 1)..Len(a.got)}]

SetAlloc(A) ==
    /\ free_list' = A.free_list
    /\ bufs' = A.bufs
    /\ total' = A.total
    /\ free' = A.free
    /\ bufSize' = A.bufSize
    /\ allocHalt' = A.halt

InitAlloc(boot) ==
    LET st == IF boot THEN Booted ELSE [A |-> Fresh, kept |-> {}]
    IN  /\ free_list = st.A.free_list
        /\ bufs = st.A.bufs
        /\ total = st.A.total
        /\ free = st.A.free
        /\ bufSize = st.A.bufSize
        /\ allocHalt = st.A.halt
        /\ held = {}
        /\ kept = st.kept
        /\ calls = 0
        /\ lastCall = "none"

\* The layout that asks for one block of a class through its size.
ClassLayout(class) == [size |-> 2^class, align |-> WordSize]

\* n allocs with one layout, one after the other; got lists the blocks.
RECURSIVE AllocMany(_, _, _, _)
AllocMany(A, layout, n, got) ==
    IF n = 0 THEN [A |-> A, got |-> got]
    ELSE LET r == AllocBlock(A, layout)
         IN  IF r.ptr = 0 THEN [A |-> r.A, got |-> got]
             ELSE AllocMany(r.A, layout, n - 1, Append(got, r.ptr))

\* The deallocs of the blocks ptrs, in order, with the layout they were
\* asked with.
RECURSIVE DeallocMany(_, _, _)
DeallocMany(A, ptrs, layout) ==
    IF ptrs = <<>> THEN A
    ELSE LET A1 == DeallocBlock(A, Head(ptrs), layout)
         IN  IF A1.halt # "none" THEN A1
             ELSE DeallocMany(A1, Tail(ptrs), layout)

\* A kernel that has run for a while: keep15 blocks of class 15 are in use
\* by long-lived owners, and n11 blocks of class 11 and n10 blocks of class
\* 10 were used and given back, so they sit in tier 2.
Parked(keep15, n11, n10) ==
    LET k  == AllocMany(Fresh, ClassLayout(15), keep15, <<>>)
        a  == AllocMany(k.A, ClassLayout(11), n11, <<>>)
        b  == AllocMany(a.A, ClassLayout(10), n10, <<>>)
        A1 == DeallocMany(b.A, a.got, ClassLayout(11))
    IN  [A    |-> DeallocMany(A1, b.got, ClassLayout(10)),
         kept |-> {[ptr |-> k.got[i], layout |-> ClassLayout(15),
                    size |-> 2^15, from |-> "heap"] : i \in 1..Len(k.got)}]

\* The blocks kept and parked in the states a drain pass is started in:
\* from every class at its reserve to both classes well above it, with the
\* free space at or just under what makes the parked blocks count as too many.
Keeps == {27, 28}

Parks11 == {Reserve(11), Reserve(11) + 1, Reserve(11) + 8}

Parks10 == {Reserve(10), Reserve(10) + 1, Reserve(10) + 5}

InitParked(keep15, n11, n10) ==
    LET st == Parked(keep15, n11, n10)
    IN  /\ free_list = st.A.free_list
        /\ bufs = st.A.bufs
        /\ total = st.A.total
        /\ free = st.A.free
        /\ bufSize = st.A.bufSize
        /\ allocHalt = st.A.halt
        /\ held = {}
        /\ kept = st.kept
        /\ calls = 0
        /\ lastCall = "none"

MayCall == allocHalt = "none" /\ calls < MaxCalls

\* A caller allocates with one of the layouts.
alloc(layout) ==
    /\ MayCall
    /\ Cardinality(held) < MaxHeld
    /\ LET r == AllocBlock(AllocNow, layout)
       IN  /\ SetAlloc(r.A)
           /\ held' = IF r.ptr = 0 THEN held
                      ELSE held \cup {[ptr |-> r.ptr, layout |-> layout,
                                        size |-> r.size, from |-> r.from]}
    /\ calls' = calls + 1
    /\ lastCall' = "alloc"
    /\ UNCHANGED <<kept, nonAllocVars>>

\* A caller gives a block back, with the layout it asked with.
dealloc(b) ==
    /\ MayCall
    /\ b \in held
    /\ SetAlloc(DeallocBlock(AllocNow, b.ptr, b.layout))
    /\ held' = held \ {b}
    /\ calls' = calls + 1
    /\ lastCall' = "dealloc"
    /\ UNCHANGED <<kept, nonAllocVars>>

\* Addresses of blocks that do not lie inside the arena: far below it, just
\* below it, reaching over its end, and at its end.
ForeignPtrs ==
    {4096, ArenaStart - 32768, ArenaStart + ArenaSize - 4096,
     ArenaStart + ArenaSize}

\* dealloc of a block that does not lie inside the arena.
deallocForeign(ptr, layout) ==
    /\ MayCall
    /\ ~InRange(ptr, LayoutSize(layout))
    /\ SetAlloc(DeallocBlock(AllocNow, ptr, layout))
    /\ calls' = calls + 1
    /\ lastCall' = "foreign"
    /\ UNCHANGED <<held, kept, nonAllocVars>>

\* A drain pass.
Free ==
    /\ MayCall
    /\ SetAlloc(FreeFrom(AllocNow, 0, 0).A)
    /\ calls' = calls + 1
    /\ lastCall' = "Free"
    /\ UNCHANGED <<held, kept, nonAllocVars>>

\* The layouts callers ask with around a drain pass: one block of either
\* parked class.
DrainLayouts == {ClassLayout(11), ClassLayout(10)}

NextDrain ==
    \/ \E layout \in DrainLayouts : alloc(layout)
    \/ \E b \in held : dealloc(b)
    \/ Free

NextAlloc ==
    \/ \E layout \in Layouts : alloc(layout)
    \/ \E b \in held : dealloc(b)
    \/ \E ptr \in ForeignPtrs, layout \in Layouts : deallocForeign(ptr, layout)
    \/ Free

(***************************************************************************)
(*                        Host-call transport                              *)
(***************************************************************************)

\* vCPUs that issue host calls, and the capacity of the QOutput ring.
NumVcpus == 2

MSG_QLEN == 2

Vcpus == 1..NumVcpus

\* What a vCPU remembers inside a call: which call, its mustAsync argument,
\* and the value its Notify read back from the swap.
NoCall == [kind |-> "none", mustAsync |-> FALSE, old |-> "none"]

NoMsg == [kind |-> "None", from |-> 0]

\* HostOutputMsg::QCall(addr of the caller's Event), or any other message.
QCallMsg(v) == [kind |-> "QCall", from |-> v]

AsyncMsg(v) == [kind |-> "Async", from |-> v]

\* ShareSpace::New: the host thread counts as WAITING, no message pending.
InitHost ==
    /\ ioThreadState = "WAITING"
    /\ hostMsgCount = 0
    /\ QOutput = <<>>
    /\ eventfd = 0
    /\ vpc = [v \in Vcpus |-> "idle"]
    /\ vcall = [v \in Vcpus |-> NoCall]
    /\ hpc = "parked"
    /\ hmsg = NoMsg
    /\ wakers = {}

\* hostMsgCount.fetch_add(1) and hostMsgCount.fetch_sub(1).
FetchAdd(count) == count + 1

FetchSub(count) == count - 1

\* A Notify that reads the state and fails to store the new one.
SwapKeepsState(state) == [old |-> ioThreadState, now |-> ioThreadState]

\* ioThreadState.swap(state): the value read and the value left behind.
SwapIOThreadState(state) == [old |-> ioThreadState, now |-> state]

\* HostSpace::Call, first statement: count the message before notifying.
CallBegin(v, mustAsync) ==
    /\ vpc[v] = "idle"
    /\ hostMsgCount' = FetchAdd(hostMsgCount)
    /\ vcall' = [vcall EXCEPT ![v] = [kind |-> "Call", mustAsync |-> mustAsync,
                                      old |-> "none"]]
    /\ vpc' = [vpc EXCEPT ![v] = "notify"]
    /\ UNCHANGED <<ioThreadState, QOutput, eventfd, hpc, hmsg, wakers,
                   nonHostVars>>

\* HostSpace::AQCall -> ShareSpace::AQHostOutputCall, first statement.
AQCallBegin(v) ==
    /\ vpc[v] = "idle"
    /\ hostMsgCount' = FetchAdd(hostMsgCount)
    /\ vcall' = [vcall EXCEPT ![v] = [kind |-> "AQCall", mustAsync |-> TRUE,
                                      old |-> "none"]]
    /\ vpc' = [vpc EXCEPT ![v] = "notify"]
    /\ UNCHANGED <<ioThreadState, QOutput, eventfd, hpc, hmsg, wakers,
                   nonHostVars>>

\* A Call that is promoted whenever it woke the host, mustAsync or not.
AfterNotifyIgnoresAsync(call, old) ==
    IF call.kind = "Call" /\ old = "WAITING" THEN "undo" ELSE "push"

\* Where a call goes once Notify has returned whether the host was asleep:
\* a Call that woke the host and need not be asynchronous is promoted.
AfterNotify(call, old) ==
    IF call.kind = "Call" /\ old = "WAITING" /\ ~call.mustAsync
    THEN "undo" ELSE "push"

\* ShareSpace::Notify, the swap.
NotifySwap(v) ==
    /\ vpc[v] = "notify"
    /\ LET s == SwapIOThreadState("RUNNING")
       IN  /\ ioThreadState' = s.now
           /\ vcall' = [vcall EXCEPT ![v].old = s.old]
           /\ vpc' = [vpc EXCEPT ![v] = IF s.old = "WAITING" THEN "write"
                                        ELSE AfterNotify(vcall[v], s.old)]
           /\ wakers' = IF s.old = "WAITING" THEN wakers \cup {v} ELSE wakers
    /\ UNCHANGED <<hostMsgCount, QOutput, eventfd, hpc, hmsg, nonHostVars>>

\* ShareSpace::Notify, IOURING.EventfdWrite after a swap that returned WAITING.
NotifyWrite(v) ==
    /\ vpc[v] = "write"
    /\ eventfd' = eventfd + 1
    /\ vpc' = [vpc EXCEPT ![v] = AfterNotify(vcall[v], vcall[v].old)]
    /\ UNCHANGED <<ioThreadState, hostMsgCount, QOutput, vcall, hpc, hmsg,
                   wakers, nonHostVars>>

\* A promotion that forgets to take the count back.
PromoteNoUndo(count) == count

\* HostSpace::Call, promotion: take the count back before the hypercall.
PromoteUndo(count) == FetchSub(count)

CallPromote(v) ==
    /\ vpc[v] = "undo"
    /\ hostMsgCount' = PromoteUndo(hostMsgCount)
    /\ vpc' = [vpc EXCEPT ![v] = "hcall"]
    /\ UNCHANGED <<ioThreadState, QOutput, eventfd, vcall, hpc, hmsg, wakers,
                   nonHostVars>>

\* HostSpace::HCall: the hypercall runs the request on the vCPU thread and
\* returns with event.ret written.
HCall(v) ==
    /\ vpc[v] = "hcall"
    /\ vpc' = [vpc EXCEPT ![v] = "idle"]
    /\ vcall' = [vcall EXCEPT ![v] = NoCall]
    /\ UNCHANGED <<ioThreadState, hostMsgCount, QOutput, eventfd, hpc, hmsg,
                   wakers, nonHostVars>>

\* ShareSpace::QCall / AQHostOutputCall, the TryPush loop: it leaves the loop
\* once the ring has room. A Call then suspends in taskMgr::Wait.
Push(v) ==
    /\ vpc[v] = "push"
    /\ Len(QOutput) < MSG_QLEN
    /\ IF vcall[v].kind = "Call"
       THEN /\ QOutput' = Append(QOutput, QCallMsg(v))
            /\ vpc' = [vpc EXCEPT ![v] = "wait"]
       ELSE /\ QOutput' = Append(QOutput, AsyncMsg(v))
            /\ vpc' = [vpc EXCEPT ![v] = "idle"]
    /\ vcall' = [vcall EXCEPT ![v] = NoCall]
    /\ UNCHANGED <<ioThreadState, hostMsgCount, eventfd, hpc, hmsg, wakers,
                   nonHostVars>>

\* ShareSpace::AQHostOutputPop on the host I/O thread, QOutput.Pop().
HostPop ==
    /\ hpc = "run"
    /\ IF QOutput = <<>>
       THEN hmsg' = NoMsg /\ UNCHANGED QOutput
       ELSE hmsg' = Head(QOutput) /\ QOutput' = Tail(QOutput)
    /\ hpc' = "popped"
    /\ UNCHANGED <<ioThreadState, hostMsgCount, eventfd, vpc, vcall, wakers,
                   nonHostVars>>

\* A pop that lowers the count even when the ring was empty.
PopDecrementAlways(res, count) == FetchSub(count)

\* AQHostOutputPop: the count goes down if Pop returned a message.
PopDecrement(res, count) == IF res # NoMsg THEN FetchSub(count) ELSE count

\* ShareSpace::AQHostOutputPop, the rest: the count, then the host serves the
\* message; serving a QCall writes event.ret and makes its task runnable.
HostPopDone ==
    /\ hpc = "popped"
    /\ hostMsgCount' = PopDecrement(hmsg, hostMsgCount)
    /\ vpc' = IF hmsg.kind = "QCall" THEN [vpc EXCEPT ![hmsg.from] = "idle"]
              ELSE vpc
    /\ hpc' = "run"
    /\ hmsg' = NoMsg
    /\ UNCHANGED <<ioThreadState, QOutput, eventfd, vcall, wakers, nonHostVars>>

\* The host I/O thread parks: ReadyOutputMsgCnt() is 0, WaitInHost.
HostWait ==
    /\ hpc = "run"
    /\ hostMsgCount = 0
    /\ ioThreadState' = "WAITING"
    /\ hpc' = "parked"
    /\ wakers' = {}
    /\ UNCHANGED <<hostMsgCount, QOutput, eventfd, vpc, vcall, hmsg,
                   nonHostVars>>

\* The host I/O thread wakes, on the eventfd or on any other event it waits
\* for, drains the eventfd and runs: WakeInHost.
HostWake ==
    /\ hpc = "parked"
    /\ ioThreadState' = "RUNNING"
    /\ eventfd' = 0
    /\ hpc' = "run"
    /\ UNCHANGED <<hostMsgCount, QOutput, vpc, vcall, hmsg, wakers,
                   nonHostVars>>

NextHost ==
    \/ \E v \in Vcpus : \E mustAsync \in BOOLEAN : CallBegin(v, mustAsync)
    \/ \E v \in Vcpus : AQCallBegin(v)
    \/ \E v \in Vcpus : NotifySwap(v)
    \/ \E v \in Vcpus : NotifyWrite(v)
    \/ \E v \in Vcpus : CallPromote(v)
    \/ \E v \in Vcpus : HCall(v)
    \/ \E v \in Vcpus : Push(v)
    \/ HostPop
    \/ HostPopDone
    \/ HostWait
    \/ HostWake

\* The host I/O thread reads ReadyOutputMsgCnt() as 0 and decides to park.
HostReady ==
    /\ hpc = "run"
    /\ hostMsgCount = 0
    /\ hpc' = "parking"
    /\ UNCHANGED <<ioThreadState, hostMsgCount, QOutput, eventfd, vpc, vcall,
                   hmsg, wakers, nonHostVars>>

\* The host I/O thread, having read the count as 0, stores WAITING and waits
\* on the eventfd: WaitInHost.
HostPark ==
    /\ hpc = "parking"
    /\ ioThreadState' = "WAITING"
    /\ hpc' = "parked"
    /\ wakers' = {}
    /\ UNCHANGED <<hostMsgCount, QOutput, eventfd, vpc, vcall, hmsg,
                   nonHostVars>>

\* The transport with the host's load of the count and its store of WAITING
\* as the two steps they are.
NextHostPark ==
    \/ \E v \in Vcpus : \E mustAsync \in BOOLEAN : CallBegin(v, mustAsync)
    \/ \E v \in Vcpus : AQCallBegin(v)
    \/ \E v \in Vcpus : NotifySwap(v)
    \/ \E v \in Vcpus : NotifyWrite(v)
    \/ \E v \in Vcpus : CallPromote(v)
    \/ \E v \in Vcpus : HCall(v)
    \/ \E v \in Vcpus : Push(v)
    \/ HostPop
    \/ HostPopDone
    \/ HostReady
    \/ HostPark
    \/ HostWake

(***************************************************************************)
(*                           Task creation                                 *)
(***************************************************************************)

\* MemoryDef::DEFAULT_STACK_SIZE: 64 KiB.
DEFAULT_STACK_SIZE == 65536

\* Number of stacks KERNEL_STACK_ALLOCATOR can hand out.
MaxStacks == 4

\* Addresses are below AddrTop; masks are taken over that many bits.
AddrTop == 2^30

RECURSIVE BitAnd(_, _)
BitAnd(a, b) ==
    IF a = 0 \/ b = 0 THEN 0
    ELSE (a % 2) * (b % 2) + 2 * BitAnd(a \div 2, b \div 2)

BitNot(a) == (AddrTop - 1) - a

DEFAULT_STACK_MAST == BitNot(DEFAULT_STACK_SIZE - 1)

\* AlignedAllocator::New(DEFAULT_STACK_SIZE, DEFAULT_STACK_SIZE).Allocate():
\* the regions it can return, each aligned to DEFAULT_STACK_SIZE.
StackBases == {k * DEFAULT_STACK_SIZE : k \in 1..MaxStacks}

\* Task::TaskId(): the id computed from the stack pointer.
TaskId(rsp) == BitAnd(rsp, DEFAULT_STACK_MAST)

GetKernelSp(taskId) == taskId + DEFAULT_STACK_SIZE - 16

\* A Create that starts the task at the very top of its stack region.
InitialRspAtTop(s_ptr) == s_ptr + DEFAULT_STACK_SIZE

\* Task::Create, ctx.rsp: the slot that holds runFn.
InitialRsp(s_ptr) == s_ptr + (DEFAULT_STACK_SIZE - 32)

\* Offsets into a stack at which a task may find its stack pointer: the
\* base, the next word, the middle, the initial frame, the kernel stack
\* pointer and the last byte.
RspOffsets ==
    {0, 8, DEFAULT_STACK_SIZE \div 2, DEFAULT_STACK_SIZE - 32,
     DEFAULT_STACK_SIZE - 16, DEFAULT_STACK_SIZE - 1}

NoTask == [stack |-> 0, rsp |-> 0, id |-> 0]

InitTask ==
    /\ taskSet = {}
    /\ running = NoTask

\* Task::Create: a stack from the allocator, the Task written at its base.
Create(s_ptr) ==
    /\ s_ptr \in StackBases
    /\ \A t \in taskSet : t.stack # s_ptr
    /\ taskSet' = taskSet \cup {[stack |-> s_ptr, taskId |-> s_ptr,
                                 rsp |-> InitialRsp(s_ptr)]}
    /\ UNCHANGED <<running, nonTaskVars>>

\* A vCPU switches to task t, taking up its saved stack pointer, and asks
\* Task::TaskId().
SwitchTo(t) ==
    /\ t \in taskSet
    /\ running' = [stack |-> t.stack, rsp |-> t.rsp, id |-> TaskId(t.rsp)]
    /\ UNCHANGED <<taskSet, nonTaskVars>>

\* The running task asks Task::TaskId() with its stack pointer elsewhere in
\* its stack.
RunAt(off) ==
    /\ running # NoTask
    /\ off \in RspOffsets
    /\ LET rsp == running.stack + off
       IN  running' = [running EXCEPT !.rsp = rsp, !.id = TaskId(rsp)]
    /\ UNCHANGED <<taskSet, nonTaskVars>>

NextTask ==
    \/ \E s_ptr \in StackBases : Create(s_ptr)
    \/ \E t \in taskSet : SwitchTo(t)
    \/ \E off \in RspOffsets : RunAt(off)

(***************************************************************************)
(*                     Thread ids in PID namespaces                        *)
(***************************************************************************)

\* Number of threads NewTask may build.
MaxThreads == 3

\* The thread ids a namespace can hand out are 1..TasksLimit.
TasksLimit == 2

\* The PID namespaces: 1 is the root, 2 its child, 3 the child of 2.
PidNs == {1, 2, 3}

\* The innermost namespace.
LeafNs == 3

ThreadUids == 1..MaxThreads

Tids == 1..TasksLimit

\* One thread group per PID namespace; ThreadGroup::PIDNamespace().
Tgs == PidNs

PIDNamespace(tg) == tg

\* PIDNamespaceInternal.parent (0: None).
Parent(ns) == ns - 1

\* The namespace and its ancestors up to the root.
RECURSIVE Ancestors(_)
Ancestors(ns) == IF ns = 0 THEN {} ELSE {ns} \cup Ancestors(Parent(ns))

\* The tids PIDNamespace::AllocateTID() may return: those no thread of the
\* namespace holds.  With none left it returns an error.
FreeTids(T, ns) == {tid \in Tids : T.tasks[ns][tid] = 0}

\* The maps of the task set as one record.
TidsNow ==
    [tasks |-> nsTasks, tids |-> nsTids, tgids |-> nsTgids, id |-> thrId]

\* An insert that forgets the reverse map.
AssignInsertNoTids(T, ns, tid, t, tg) ==
    [T EXCEPT !.id[t] = tid,
              !.tasks[ns][tid] = t,
              !.tgids[ns][tg] = IF tgLeader[tg] = 0 THEN tid ELSE @]

\* AssignTids, one round of the loop: record tid for t in namespace ns.
AssignInsert(T, ns, tid, t, tg) ==
    [T EXCEPT !.id[t] = tid,
              !.tasks[ns][tid] = t,
              !.tids[ns][t] = tid,
              !.tgids[ns][tg] = IF tgLeader[tg] = 0 THEN tid ELSE @]

\* AssignTids, the error branch: undo the entries made so far.  The tgid is
\* removed from the namespace whose allocation failed.
RECURSIVE AssignUndo(_, _, _, _, _)
AssignUndo(T, allocatedTIDs, pidns, t, tg) ==
    IF allocatedTIDs = <<>> THEN T
    ELSE LET a == Head(allocatedTIDs)
             T1 == [T EXCEPT !.tasks[a.ns][a.tid] = 0,
                             !.tids[a.ns][t] = 0,
                             !.tgids[pidns][tg] =
                                 IF tgLeader[tg] = 0 THEN 0 ELSE @]
         IN  AssignUndo(T1, Tail(allocatedTIDs), pidns, t, tg)

\* AssignTids from namespace pidns upwards; pick[ns] is what AllocateTID
\* returns in namespace ns when it has a tid left.
RECURSIVE AssignLoop(_, _, _, _, _, _)
AssignLoop(T, pidns, t, tg, pick, allocatedTIDs) ==
    IF FreeTids(T, pidns) = {}
    THEN [ok |-> FALSE, T |-> AssignUndo(T, allocatedTIDs, pidns, t, tg)]
    ELSE LET tid == pick[pidns]
             T1 == AssignInsert(T, pidns, tid, t, tg)
             done == Append(allocatedTIDs, [ns |-> pidns, tid |-> tid])
         IN  IF Parent(pidns) = 0 THEN [ok |-> TRUE, T |-> T1]
             ELSE AssignLoop(T1, Parent(pidns), t, tg, pick, done)

\* TaskSetInternal::AssignTids.
AssignTids(T, t, tg, pick) ==
    AssignLoop(T, PIDNamespace(tg), t, tg, pick, <<>>)

InitTids ==
    /\ nsTasks = [ns \in PidNs |-> [tid \in Tids |-> 0]]
    /\ nsTids = [ns \in PidNs |-> [t \in ThreadUids |-> 0]]
    /\ nsTgids = [ns \in PidNs |-> [tg \in Tgs |-> 0]]
    /\ thrTg = [t \in ThreadUids |-> 0]
    /\ thrId = [t \in ThreadUids |-> 0]
    /\ tgLeader = [tg \in Tgs |-> 0]
    /\ taskCount = 0
    /\ lastUid = 0
    /\ curThread = 0

\* TaskSet::NewTask for thread group tg: a thread with a fresh uid, to which
\* the calling Task is bound at once when fromContext is set; the call goes
\* no further when the group is exiting; else AssignTids, and on success
\* the task count, the group's leader and its membership.
NewTask(tg, exiting, pick, fromContext) ==
    /\ lastUid < MaxThreads
    /\ curThread' = IF fromContext THEN lastUid + 1 ELSE curThread
    /\ \A ns \in PidNs :
         FreeTids(TidsNow, ns) # {} => pick[ns] \in FreeTids(TidsNow, ns)
    /\ lastUid' = lastUid + 1
    /\ LET t == lastUid + 1
           r == AssignTids(TidsNow, t, tg, pick)
       IN  IF exiting
           THEN UNCHANGED <<nsTasks, nsTids, nsTgids, thrTg, thrId, tgLeader,
                            taskCount>>
           ELSE /\ nsTasks' = r.T.tasks
                /\ nsTids' = r.T.tids
                /\ nsTgids' = r.T.tgids
                /\ thrId' = r.T.id
                /\ IF r.ok
                   THEN /\ taskCount' = taskCount + 1
                        /\ thrTg' = [thrTg EXCEPT ![t] = tg]
                        /\ tgLeader' = [tgLeader EXCEPT ![tg] =
                                           IF @ = 0 THEN t ELSE @]
                   ELSE UNCHANGED <<taskCount, thrTg, tgLeader>>
    /\ UNCHANGED nonTidVars

NextTids ==
    \/ \E tg \in Tgs, exiting \in BOOLEAN, pick \in [PidNs -> Tids],
          fromContext \in BOOLEAN :
        NewTask(tg, exiting, pick, fromContext)

(***************************************************************************)
(*              Exceptions, page faults and task accounting                *)
(***************************************************************************)

\* ExceptionStackVec.
ExceptionStackVec ==
    {"DivideByZero", "Debug", "NMI", "Breakpoint", "Overflow",
     "BoundRangeExceeded", "InvalidOpcode", "DeviceNotAvailable",
     "DoubleFault", "CoprocessorSegmentOverrun", "InvalidTSS",
     "SegmentNotPresent", "StackSegmentFault", "GeneralProtectionFault",
     "PageFault", "X87FloatingPointException", "AlignmentCheck",
     "MachineCheck", "SIMDFloatingPointException",
     "VirtualizationException", "SecurityException", "SyscallInt80"}

\* The signals the handlers send.
Signals == {"SIGILL", "SIGTRAP", "SIGBUS", "SIGFPE", "SIGSEGV"}

NoInfo == [Signo |-> "none", Code |-> 0]

\* ExceptionHandler, the match on ev: the SignalInfo it builds, NoInfo for
\* the arm that panics.
ExceptionInfo(ev) ==
    CASE ev = "DivideByZero" -> [Signo |-> "SIGFPE", Code |-> 1]
      [] ev = "Overflow" -> [Signo |-> "SIGFPE", Code |-> 2]
      [] ev \in {"X87FloatingPointException", "SIMDFloatingPointException"}
           -> [Signo |-> "SIGFPE", Code |-> 7]
      [] ev \in {"Debug", "Breakpoint"} -> [Signo |-> "SIGTRAP", Code |-> 1]
      [] ev \in {"GeneralProtectionFault", "SegmentNotPresent",
                 "BoundRangeExceeded", "InvalidTSS", "StackSegmentFault"}
           -> [Signo |-> "SIGSEGV", Code |-> "SIGNAL_INFO_KERNEL"]
      [] ev = "InvalidOpcode" -> [Signo |-> "SIGILL", Code |-> 1]
      [] ev = "AlignmentCheck" -> [Signo |-> "SIGBUS", Code |-> 2]
      [] OTHER -> NoInfo

\* The signal state of the thread as one record.
SigNow ==
    [blocked |-> sigBlocked, ignored |-> sigIgnored, pending |-> sigPending]

\* Thread::forceSignal(sig, false): the thread neither blocks nor ignores
\* sig afterwards.
forceSignal(S, sig) ==
    [S EXCEPT !.blocked = @ \ {sig}, !.ignored = @ \ {sig}]

\* Thread::SendSignal(info): the signal is queued unless the thread ignores
\* it.
SendSignal(S, info) ==
    IF info.Signo \in S.ignored THEN S
    ELSE [S EXCEPT !.pending = @ \cup {info}]

\* The queued signals the thread does not block.
Deliverable(S) == {i \in S.pending : i.Signo \notin S.blocked}

\* Task::RunApp(): delivers the deliverable signals; the task then returns
\* to user mode (RunSyscallRet) or, when a delivered signal is fatal, exits.
RunApp(S, fatal) ==
    [next |-> IF Deliverable(S) # {} /\ fatal THEN "RunExit"
              ELSE "RunSyscallRet",
     S |-> [S EXCEPT !.pending = @ \ Deliverable(S)]]

\* Task::AccountTaskEnter of a user task in an initialized kernel: the new
\* state, or "panic".
AccountTaskEnter(current, state) ==
    IF current \in {"RunningSys", "Nonexistent", "Stopped"} THEN state
    ELSE "panic"

\* An accounting call that leaves the state as it is.
AccountTaskLeaveKeeps(current, state) == current

\* Task::AccountTaskLeave of a user task in an initialized kernel.
AccountTaskLeave(current, state) ==
    IF current # state /\ current # "Nonexistent" /\ current # "RunningSys"
    THEN "panic"
    ELSE "RunningSys"

\* The tail of MainRun from DoStop on, for a task in state current: where
\* the task is next, its state, and the states it went through.
LeaveKernel(current) ==
    IF stopCount # 0
    THEN LET e == AccountTaskEnter(current, "Stopped")
         IN  IF e = "panic"
             THEN [pc |-> "panic", state |-> current, trace |-> <<>>,
                   acct |-> TRUE]
             ELSE [pc |-> "stopMain", state |-> e, trace |-> <<e>>,
                   acct |-> FALSE]
    ELSE LET e == AccountTaskEnter(current, "RunningApp")
         IN  IF e = "panic"
             THEN [pc |-> "panic", state |-> current, trace |-> <<>>,
                   acct |-> TRUE]
             ELSE [pc |-> "user", state |-> e, trace |-> <<e>>,
                   acct |-> FALSE]

\* MainRun(currTask, state): the loop, then DoStop and AccountTaskEnter.
MainRun(state, current, S, fatal) ==
    IF state = "RunApp"
    THEN LET r == RunApp(S, fatal)
         IN  IF r.next = "RunSyscallRet"
             THEN [S |-> r.S] @@ LeaveKernel(current)
             ELSE [S |-> r.S, pc |-> "exited", state |-> current,
                   trace |-> <<>>, acct |-> FALSE]
    ELSE IF state \in {"RunNoneReachAble", "RunSyscallRet"}
    THEN [S |-> S, pc |-> "panic", state |-> current, trace |-> <<>>,
          acct |-> FALSE]
    ELSE [S |-> S, pc |-> "exited", state |-> current, trace |-> <<>>,
          acct |-> FALSE]

NoTrap ==
    [handler |-> "none", in |-> <<>>, user |-> FALSE, outcome |-> "none",
     forced |-> "none", sent |-> NoInfo, installed |-> FALSE, cow |-> FALSE,
     acct |-> FALSE, trace |-> <<>>]

InitTrap(blocked, ignored) ==
    /\ tpc = "boot"
    /\ schedState = "Nonexistent"
    /\ stopCount = 0
    /\ sigBlocked = blocked
    /\ sigIgnored = ignored
    /\ sigPending = {}
    /\ trapOut = NoTrap

\* The effect of a handler on the trap variables.
SetTrap(pc, state, S, out) ==
    /\ tpc' = pc
    /\ schedState' = state
    /\ sigBlocked' = S.blocked
    /\ sigIgnored' = S.ignored
    /\ sigPending' = S.pending
    /\ trapOut' = out
    /\ UNCHANGED <<stopCount, nonTrapVars>>

\* A trap handler that panics.
TrapPanic(state, out) ==
    SetTrap("panic", state, SigNow, [out EXCEPT !.outcome = "panic"])

\* A trap handler that forces signal forced, sends info and goes through
\* MainRun(RunApp) back to the application.
TrapSignal(state, out, forced, info, fatal) ==
    LET S1 == SendSignal(forceSignal(SigNow, forced), info)
        m == MainRun("RunApp", state, S1, fatal)
    IN  SetTrap(m.pc, m.state, m.S,
                [out EXCEPT !.outcome = "signal", !.forced = forced,
                            !.sent = info, !.acct = m.acct,
                            !.trace = out.trace \o m.trace])

\* StartRootContainer / StartExecProcess: the task enters user mode for the
\* first time.
EnterUser ==
    /\ tpc = "boot"
    /\ LET e == AccountTaskEnter(schedState, "RunningApp")
       IN  IF e = "panic"
           THEN TrapPanic(schedState,
                          [NoTrap EXCEPT !.handler = "start", !.acct = TRUE])
           ELSE SetTrap("user", e, SigNow,
                        [NoTrap EXCEPT !.handler = "start",
                                       !.outcome = "resume",
                                       !.trace = <<e>>])

\* ExceptionHandler(ev, sf, errorCode), raised in user mode or inside a
\* syscall.  The inputs the handler does not get to look at are held at one
\* value.  For InvalidOpcode the handler reads eight bytes at sf.ip; when
\* they reach into a page that is not mapped (ipReadable = FALSE) the read
\* faults in ring 0 and PageFaultHandler panics.
ExceptionHandler(ev, ipReadable, fatal) ==
    /\ tpc \in {"user", "sys"}
    /\ ev = "InvalidOpcode" \/ ipReadable
    /\ (tpc = "user" /\ ExceptionInfo(ev) # NoInfo) \/ ~fatal
    /\ LET fromUser == tpc = "user"
           out == [NoTrap EXCEPT !.handler = "exception",
                                 !.in = <<ev, ipReadable>>,
                                 !.user = fromUser]
           l == AccountTaskLeave(schedState, "RunningApp")
           info == ExceptionInfo(ev)
       IN  IF ~fromUser THEN TrapPanic(schedState, out)
           ELSE IF l = "panic"
           THEN TrapPanic(schedState, [out EXCEPT !.acct = TRUE])
           ELSE IF info = NoInfo \/ (ev = "InvalidOpcode" /\ ~ipReadable)
           THEN TrapPanic(l, [out EXCEPT !.trace = <<l>>])
           ELSE TrapSignal(l, [out EXCEPT !.trace = <<l>>], info.Signo,
                           info, fatal)

\* What GetVmaAndRangeLocked(cr2) can find: no VMA, or a VMA with these
\* attributes.
NoVma == [none |-> TRUE]

Vmas ==
    {NoVma} \cup [kernel : BOOLEAN, read : BOOLEAN, write : BOOLEAN,
                  private : BOOLEAN]

\* PageFaultErrorCode bits the handler looks at: PROTECTION_VIOLATION,
\* CAUSED_BY_WRITE, INSTRUCTION_FETCH.  An instruction fetch is not a write.
ErrorCodes ==
    {e \in [P : BOOLEAN, W : BOOLEAN, I : BOOLEAN] : ~(e.W /\ e.I)}

\* What InstallPageLocked can return.
InstallResults == {"Ok", "FileMapError", "Err"}

\* A decision that lets a kernel VMA serve the fault.
PageFaultDecisionKernelOk(vma, err, install) ==
    IF vma = NoVma THEN "SIGSEGV"
    ELSE IF ~vma.read THEN "SIGSEGV"
    ELSE IF ~err.P
    THEN (CASE install = "FileMapError" -> "SIGBUS"
            [] install = "Err" -> "panic"
            [] OTHER -> "install")
    ELSE IF ~vma.private THEN "SIGSEGV"
    ELSE IF err.W
    THEN (IF ~vma.write THEN "SIGSEGV" ELSE "cow")
    ELSE "SIGSEGV"

\* PageFaultHandler, the loop body: what the handler decides for a fault
\* in user mode.
PageFaultDecision(vma, err, install) ==
    IF vma = NoVma THEN "SIGSEGV"
    ELSE IF vma.kernel THEN "SIGSEGV"
    ELSE IF ~vma.read THEN "SIGSEGV"
    ELSE IF ~err.P
    THEN (CASE install = "FileMapError" -> "SIGBUS"
            [] install = "Err" -> "panic"
            [] OTHER -> "install")
    ELSE IF ~vma.private THEN "SIGSEGV"
    ELSE IF err.W
    THEN (IF ~vma.write THEN "SIGSEGV" ELSE "cow")
    ELSE "SIGSEGV"

\* HandleFault: the SignalInfo it sends.
HandleFaultInfo(signal, err) ==
    [Signo |-> signal, Code |-> IF ~err.W /\ ~err.I THEN 1 ELSE 2]

\* HandleFault: the signal it forces.
HandleFaultForced(signal) == "SIGSEGV"

\* PageFaultHandler(sf, errorCode) and, for a signal, HandleFault.
PageFaultHandler(vma, err, install, fatal) ==
    /\ tpc \in {"user", "sys"}
    /\ tpc = "user" \/ (vma = NoVma /\ err = [P |-> FALSE, W |-> FALSE,
                                             I |-> FALSE])
    /\ (vma # NoVma /\ ~vma.kernel /\ vma.read /\ ~err.P) \/ install = "Ok"
    /\ (tpc = "user" /\ PageFaultDecision(vma, err, install) \in Signals)
         \/ ~fatal
    /\ LET fromUser == tpc = "user"
           d == PageFaultDecision(vma, err, install)
           reached == vma # NoVma /\ ~vma.kernel /\ vma.read /\ ~err.P
           out == [NoTrap EXCEPT !.handler = "pagefault",
                                 !.in = <<vma, err,
                                          IF reached THEN install
                                          ELSE "unused">>,
                                 !.user = fromUser]
           l == AccountTaskLeave(schedState, "RunningApp")
       IN  IF ~fromUser THEN TrapPanic(schedState, out)
           ELSE IF l = "panic"
           THEN TrapPanic(schedState, [out EXCEPT !.acct = TRUE])
           ELSE IF d = "panic"
           THEN TrapPanic(l, [out EXCEPT !.trace = <<l>>])
           ELSE IF d \in {"install", "cow"}
           THEN LET e == AccountTaskEnter(l, "RunningApp")
                    o == [out EXCEPT !.installed = (d = "install"),
                                     !.cow = (d = "cow")]
                IN  IF e = "panic"
                    THEN TrapPanic(l, [o EXCEPT !.acct = TRUE,
                                                !.trace = <<l>>])
                    ELSE SetTrap("user", e, SigNow,
                                 [o EXCEPT !.outcome = "resume",
                                           !.trace = <<l, e>>])
           ELSE TrapSignal(l, [out EXCEPT !.trace = <<l>>],
                           HandleFaultForced(d), HandleFaultInfo(d, err),
                           fatal)

\* syscall_handler up to the call of SysCall: AccountTaskLeave, then DoStop,
\* which blocks while the thread's stop count is not zero.
SyscallEntry ==
    /\ tpc = "user"
    /\ LET out == [NoTrap EXCEPT !.handler = "syscall", !.user = TRUE]
           l == AccountTaskLeave(schedState, "RunningApp")
           e == AccountTaskEnter(l, "Stopped")
       IN  IF l = "panic"
           THEN TrapPanic(schedState, [out EXCEPT !.acct = TRUE])
           ELSE IF stopCount = 0
           THEN SetTrap("sys", l, SigNow,
                        [out EXCEPT !.outcome = "entered", !.trace = <<l>>])
           ELSE IF e = "panic"
           THEN TrapPanic(l, [out EXCEPT !.acct = TRUE, !.trace = <<l>>])
           ELSE SetTrap("stopSys", e, SigNow,
                        [out EXCEPT !.outcome = "entered",
                                    !.trace = <<l, e>>])

\* DoStop, after the wait: the stop count is zero again, AccountTaskLeave;
\* in MainRun the task goes on to AccountTaskEnter(RunningApp).
StopWake ==
    /\ tpc \in {"stopSys", "stopMain"}
    /\ stopCount = 0
    /\ LET out == [trapOut EXCEPT !.handler = "stop"]
           l == AccountTaskLeave(schedState, "Stopped")
           e == AccountTaskEnter(l, "RunningApp")
       IN  IF l = "panic"
           THEN TrapPanic(schedState, [out EXCEPT !.acct = TRUE])
           ELSE IF tpc = "stopSys"
           THEN SetTrap("sys", l, SigNow,
                        [out EXCEPT !.trace = trapOut.trace \o <<l>>])
           ELSE IF e = "panic"
           THEN TrapPanic(l, [out EXCEPT !.acct = TRUE])
           ELSE SetTrap("user", e, SigNow,
                        [out EXCEPT !.outcome = "resume",
                                    !.trace = trapOut.trace \o <<l, e>>])

\* The states SysCall hands to MainRun.
SysCallStates == {"RunApp", "RunExit"}

\* syscall_handler from SysCall on: the call, MainRun, the return to user
\* mode.
SyscallReturn(state, fatal) ==
    /\ tpc = "sys"
    /\ LET m == MainRun(state, schedState, SigNow, fatal)
       IN  SetTrap(m.pc, m.state, m.S,
                   [trapOut EXCEPT !.handler = "syscall",
                                   !.outcome = IF m.pc = "user" THEN "resume"
                                               ELSE m.pc,
                                   !.acct = m.acct,
                                   !.trace = trapOut.trace \o m.trace])

\* Another thread starts or ends a stop of this thread.
StopChange(n) ==
    /\ tpc \notin {"boot", "exited", "panic"}
    /\ stopCount # n
    /\ stopCount' = n
    /\ UNCHANGED <<tpc, schedState, sigBlocked, sigIgnored, sigPending,
                   trapOut, nonTrapVars>>

NextTrap ==
    \/ EnterUser
    \/ \E ev \in ExceptionStackVec, ipReadable \in BOOLEAN,
          fatal \in BOOLEAN : ExceptionHandler(ev, ipReadable, fatal)
    \/ \E vma \in Vmas, err \in ErrorCodes, install \in InstallResults,
          fatal \in BOOLEAN : PageFaultHandler(vma, err, install, fatal)
    \/ SyscallEntry
    \/ StopWake
    \/ \E state \in SysCallStates, fatal \in BOOLEAN :
          SyscallReturn(state, fatal)
    \/ \E n \in {0, 1} : StopChange(n)

(***************************************************************************)
(*                     io_uring submission queue                           *)
(***************************************************************************)

\* The ring has 2^RingOrder entries (io_uring rings are powers of two).
RingOrder == 1

\* The submitter pushes at most this many entries.
MaxPushes == 4

ring_entries == 2 ^ RingOrder

\* head and tail are u32 (squeue.rs 49-50).  A u32 is kept as its two 16-bit
\* halves, hi * 2^16 + lo, so that the wrap-around at 2^32 is the code's.
Half == 65536

U32(hi, lo) == [hi |-> hi, lo |-> lo]

\* u32::wrapping_add(1).
wrapping_add1(a) ==
    IF a.lo = Half - 1
    THEN U32((a.hi + 1) % Half, 0)
    ELSE U32(a.hi, a.lo + 1)

\* u32::wrapping_sub.
wrapping_sub(a, b) ==
    LET borrow == IF a.lo < b.lo THEN 1 ELSE 0 IN
    U32((a.hi - b.hi - borrow + 2 * Half) % Half, (a.lo - b.lo + Half) % Half)

\* x & ring_mask, ring_mask being ring_entries - 1 with ring_entries a power
\* of two no larger than 2^16: the low bits of the low half.
MaskIndex(a) == a.lo % ring_entries

\* The values head and tail start from: 0 as set up by the kernel, and the
\* values an empty ring has after 2^16 - 1 and after 2^32 - 2 entries went
\* through it.
StartCounters == {U32(0, 0), U32(0, Half - 1), U32(Half - 1, Half - 2)}

\* An is_full that subtracts without wrapping.
is_fullPlainSub(q) ==
    q.tail.hi = q.head.hi /\ q.tail.lo - q.head.lo = ring_entries

\* AvailableQueue::is_full (squeue.rs 205-208).
is_full(q) == wrapping_sub(q.tail, q.head) = U32(0, ring_entries)

\* The tail the submitter works with: the AvailableQueue's while one is
\* live, the published one otherwise.
SubmitterTail == IF aq.live THEN aq.tail ELSE sqTail

InitSq(start) ==
    /\ sqHead = start
    /\ sqTail = start
    /\ sqSlots = [i \in 0..(ring_entries - 1) |-> 0]
    /\ aq = [live |-> FALSE, head |-> start, tail |-> start]
    /\ sqPending = <<>>
    /\ sqPushed = 0
    /\ sqRet = "none"

\* SubmissionQueue::available (squeue.rs 168-178).
Available ==
    /\ ~aq.live
    /\ aq' = [live |-> TRUE, head |-> sqHead, tail |-> sqTail]
    /\ UNCHANGED <<sqHead, sqTail, sqSlots, sqPending, sqPushed, sqRet>>
    /\ UNCHANGED nonSqVars

\* AvailableQueue::push (squeue.rs 217-226); the entry pushed is numbered by
\* the count of entries pushed before it.
SqPush ==
    /\ aq.live
    /\ sqPushed < MaxPushes
    /\ IF ~is_full(aq)
       THEN /\ sqSlots' = [sqSlots EXCEPT ![MaskIndex(aq.tail)] = sqPushed + 1]
            /\ aq' = [aq EXCEPT !.tail = wrapping_add1(@)]
            /\ sqPending' = Append(sqPending, sqPushed + 1)
            /\ sqPushed' = sqPushed + 1
            /\ sqRet' = "Ok"
       ELSE /\ sqRet' = "Err"
            /\ UNCHANGED <<sqSlots, aq, sqPending, sqPushed>>
    /\ UNCHANGED <<sqHead, sqTail>>
    /\ UNCHANGED nonSqVars

\* AvailableQueue::sync (squeue.rs 183-188).
SqSync ==
    /\ aq.live
    /\ sqTail' = aq.tail
    /\ aq' = [aq EXCEPT !.head = sqHead]
    /\ UNCHANGED <<sqHead, sqSlots, sqPending, sqPushed, sqRet>>
    /\ UNCHANGED nonSqVars

\* Drop for AvailableQueue (squeue.rs 229-235).
DropAvailable ==
    /\ aq.live
    /\ sqTail' = aq.tail
    /\ aq' = [aq EXCEPT !.live = FALSE]
    /\ UNCHANGED <<sqHead, sqSlots, sqPending, sqPushed, sqRet>>
    /\ UNCHANGED nonSqVars

\* The consumer of the ring takes the entry at head, which it may do once
\* the published tail is past it, and advances head.
ConsumerAdvance ==
    /\ sqHead /= sqTail
    /\ sqHead' = wrapping_add1(sqHead)
    /\ sqPending' = Tail(sqPending)
    /\ UNCHANGED <<sqTail, sqSlots, aq, sqPushed, sqRet>>
    /\ UNCHANGED nonSqVars

NextSq ==
    \/ Available
    \/ SqPush
    \/ SqSync
    \/ DropAvailable
    \/ ConsumerAdvance

(***************************************************************************)
(*                      NeedFree over the counters                         *)
(***************************************************************************)

\* Largest total of the counter states NeedFree is called in, in words.
MaxWords == 8

\* The counter states: total, free and bufSize are byte counts of whole
\* words, the buddy heap holds at most the total, and tier 2 holds at most
\* what the heap has given out.
CounterStates ==
    {c \in [total : {WordSize * k : k \in 0..MaxWords},
            free : {WordSize * k : k \in 0..MaxWords},
            bufSize : {WordSize * k : k \in 0..MaxWords}] :
        c.free + c.bufSize <= c.total}

\* An allocator whose three counters are c; the lists play no part in
\* NeedFree.
InitCounters(c) ==
    /\ free_list = Empty.free_list
    /\ bufs = Empty.bufs
    /\ total = c.total
    /\ free = c.free
    /\ bufSize = c.bufSize
    /\ allocHalt = "none"
    /\ held = {}
    /\ kept = {}
    /\ calls = 0
    /\ lastCall = "none"

InitNeedFree == needFreeRet = "none"

\* One call of ListAllocator::NeedFree (list_allocator.rs 115-130): the three
\* loads and the test.
NeedFreeCall ==
    /\ needFreeRet' = IF NeedFree(AllocNow) THEN "true" ELSE "false"
    /\ UNCHANGED nonNeedFreeVars

NextNeedFree == NeedFreeCall

(***************************************************************************)
(*                  Page-fault prefetch of neighbours                      *)
(***************************************************************************)

\* Addresses are page-aligned throughout the handler (pageAddr is the fault
\* address rounded down, the range of a VMA is page-aligned), so they are
\* counted in pages: one stands for PAGE_SIZE.

\* Most pages of a VMA, and the page its range starts at.
MaxVmaPages == 9

VmaStartPage == 16

\* Range::Contains: start <= addr < end.
Contains(range, addr) == range.start <= addr /\ addr < range.end

\* MemoryManager::InstallPageLocked(task, vma, pageAddr, range): the page at
\* the address it is given becomes mapped, unless it returns an error.
InstallPageLocked(mapped, addr, ok) == IF ok THEN mapped \cup {addr} ELSE mapped

\* The faults: a VMA of 1..MaxVmaPages pages, growing up or down, the page
\* of the fault anywhere in it, and which of the prefetch's install calls, if
\* any, returns an error.
Faults ==
    {f \in [len : 1..MaxVmaPages, page : 0..(MaxVmaPages - 1),
            growsDown : BOOLEAN, failAt : 0..7] : f.page < f.len}

\* A fault in the middle of a VMA of three pages that grows up.
MidFault == [len |-> 3, page |-> 1, growsDown |-> FALSE, failAt |-> 0]

\* PageFaultHandler after the first InstallPageLocked has returned Ok
\* (mod.rs 528-537): the page of the fault is mapped and the loop starts.
InitPrefetch(F) ==
    \E f \in F :
        prefetch =
            [range     |-> [start |-> VmaStartPage,
                            end   |-> VmaStartPage + f.len],
             growsDown |-> f.growsDown,
             pageAddr  |-> VmaStartPage + f.page,
             failAt    |-> f.failAt,
             i         |-> 1,
             calls     |-> 0,
             mapped    |-> {VmaStartPage + f.page},
             done      |-> FALSE]

\* The address the loop computes in turn i (mod.rs 540-544).
NeighbourAddr(p, i) ==
    IF p.growsDown THEN p.pageAddr - i
    ELSE p.pageAddr + i

\* One turn of for i in 1..8 (mod.rs 539-555): the address of the neighbour
\* is computed and tested against the range; the install call is made with
\* pageAddr.
PrefetchTurn(p) ==
    IF Contains(p.range, NeighbourAddr(p, p.i))
    THEN IF p.failAt = p.calls + 1
         THEN [p EXCEPT !.calls = @ + 1, !.done = TRUE]
         ELSE [p EXCEPT !.calls = @ + 1,
                        !.mapped = InstallPageLocked(@, p.pageAddr, TRUE),
                        !.i = @ + 1,
                        !.done = (p.i = 7)]
    ELSE [p EXCEPT !.done = TRUE]

PrefetchStep ==
    /\ ~prefetch.done
    /\ prefetch' = PrefetchTurn(prefetch)
    /\ UNCHANGED nonPrefetchVars

NextPrefetch == PrefetchStep

(***************************************************************************)
(*                     MainRun: RunExitDone                                *)
(***************************************************************************)

\* What the task of an exiting thread refers to, and what the dummy task
\* does.  The thread got its memory manager and fd table from the TaskConfig
\* of NewTask (threads.rs 182-184): they are the task's or others.
Originals == {"taskMm", "taskFdTbl", "taskThread", "taskCounters"}

ThreadMms == {"taskMm", "otherMm"}

ThreadFdTbls == {"taskFdTbl", "otherFdTbl"}

\* The statements of the RunExitNotify and RunExitDone arms of MainRun, in
\* the order of the code; exitRun.pc is the statement to run next.
ExitSteps ==
    <<"RunExitNotify", "Thread", "PerfStop", "SetDummy", "fdTbl", "mm",
      "memoryMgr", "SetPendingFreeStack", "SwitchTo", "drop", "blockEnd",
      "SwitchToNewTask", "switched">>

ExitPos(step) == CHOOSE k \in 1..Len(ExitSteps) : ExitSteps[k] = step

\* MainRun(currTask, RunExitNotify) of a task with a thread: of any such
\* task, or of one whose thread shares everything with it.
InitExit(any) ==
    \E tmm \in IF any THEN ThreadMms ELSE {"taskMm"},
       tfd \in IF any THEN ThreadFdTbls ELSE {"taskFdTbl"},
       perf \in IF any THEN BOOLEAN ELSE {FALSE},
       kpt \in IF any THEN BOOLEAN ELSE {FALSE} :
        exitRun =
            [pc              |-> "RunExitNotify",
             task            |-> [mm |-> "taskMm", fdTbl |-> "taskFdTbl",
                                  thread |-> "taskThread",
                                  perfcounters |->
                                      IF perf THEN "taskCounters" ELSE "None"],
             thread          |-> [memoryMgr |-> tmm, fdTbl |-> tfd],
             local           |-> [thread |-> "None", mm |-> "None"],
             KernelPagetable |-> kpt,
             pagetable       |-> "task",
             pendingFree     |-> FALSE,
             dropped         |-> {}]

\* Statement step has run: the next statement, and the handles it dropped.
ExitDone(x, step, dropped) ==
    [x EXCEPT !.pc = ExitSteps[ExitPos(step) + 1],
              !.dropped = dropped \ {"None"}]

ExitAt(step, x) ==
    /\ exitRun.pc = step
    /\ exitRun' = x
    /\ UNCHANGED nonExitVars

\* The RunExitNotify arm: the next state is RunExitDone.
RunExitNotify == ExitAt("RunExitNotify", ExitDone(exitRun, "RunExitNotify", {}))

\* let thread = currTask.Thread();
TaskThread ==
    ExitAt("Thread",
           ExitDone([exitRun EXCEPT !.local.thread = exitRun.task.thread],
                    "Thread", {}))

\* currTask.PerfStop();
PerfStop == ExitAt("PerfStop", ExitDone(exitRun, "PerfStop", {}))

\* Task::SetDummy that leaves the thread of the task in place.
SetDummyKeepsThread(task) ==
    [task EXCEPT !.mm = "dummyMm", !.fdTbl = "dummyFdTbl",
                 !.perfcounters = "None"]

\* Task::SetDummy: the fields of the task become those of DUMMY_TASK, thread
\* and perfcounters become None.
SetDummy(task) ==
    [task EXCEPT !.mm = "dummyMm", !.fdTbl = "dummyFdTbl",
                 !.thread = "None", !.perfcounters = "None"]

\* The values a record of handles lets go of when it becomes after.
Released(before, after) ==
    {before[f] : f \in {g \in DOMAIN before : before[g] # after[g]}}

\* currTask.SetDummy();
RunSetDummy ==
    ExitAt("SetDummy",
           ExitDone([exitRun EXCEPT !.task = SetDummy(exitRun.task)],
                    "SetDummy",
                    Released(exitRun.task, SetDummy(exitRun.task))))

\* thread.lock().fdTbl = currTask.fdTbl.clone();
ThreadFdTbl ==
    ExitAt("fdTbl",
           ExitDone([exitRun EXCEPT !.thread.fdTbl = exitRun.task.fdTbl],
                    "fdTbl", {exitRun.thread.fdTbl} \ {exitRun.task.fdTbl}))

\* let mm = thread.lock().memoryMgr.clone();
TakeMm ==
    ExitAt("mm",
           ExitDone([exitRun EXCEPT !.local.mm = exitRun.thread.memoryMgr],
                    "mm", {}))

\* thread.lock().memoryMgr = currTask.mm.clone();
ThreadMemoryMgr ==
    ExitAt("memoryMgr",
           ExitDone([exitRun EXCEPT !.thread.memoryMgr = exitRun.task.mm],
                    "memoryMgr",
                    {exitRun.thread.memoryMgr} \ {exitRun.task.mm}))

\* CPULocal::SetPendingFreeStack(currTask.taskId);
SetPendingFreeStack ==
    ExitAt("SetPendingFreeStack",
           ExitDone([exitRun EXCEPT !.pendingFree = TRUE],
                    "SetPendingFreeStack", {}))

\* if !SHARESPACE.config.KernelPagetable { KERNEL_PAGETABLE.SwitchTo(); }
SwitchPagetable ==
    ExitAt("SwitchTo",
           ExitDone([exitRun EXCEPT !.pagetable =
                         IF exitRun.KernelPagetable THEN @ ELSE "kernel"],
                    "SwitchTo", {}))

\* core::mem::drop(mm);
DropMm ==
    ExitAt("drop",
           ExitDone([exitRun EXCEPT !.local.mm = "None"], "drop",
                    {exitRun.local.mm}))

\* The end of the block: the locals still held go out of scope.
EndBlock ==
    ExitAt("blockEnd",
           ExitDone([exitRun EXCEPT !.local =
                         [thread |-> "None", mm |-> "None"]],
                    "blockEnd", {exitRun.local.thread, exitRun.local.mm}))

\* self::taskMgr::SwitchToNewTask(): control leaves the task for good.
SwitchToNewTask ==
    ExitAt("SwitchToNewTask", ExitDone(exitRun, "SwitchToNewTask", {}))

NextExit ==
    \/ RunExitNotify
    \/ TaskThread
    \/ PerfStop
    \/ RunSetDummy
    \/ ThreadFdTbl
    \/ TakeMm
    \/ ThreadMemoryMgr
    \/ SetPendingFreeStack
    \/ SwitchPagetable
    \/ DropMm
    \/ EndBlock
    \/ SwitchToNewTask

(***************************************************************************)
(*                            rust_main                                    *)
(***************************************************************************)

\* The ids the VMM passes to rust_main, one call per vCPU.
CpuIds == 0..(NumVcpus - 1)

\* The statements of rust_main on vCPU 0 in another order: the INIT
\* hypercall with its ShareSpace first, the arena second.
BootStepsShareSpaceFirst(id, autoStart) ==
    IF id = 0
    THEN <<"KernelMsg", "SHARESPACE", "HYPERCALL_INIT", "ALLOCATOR.Add",
           "InitGs", "IOURING", "SetVcpuCnt", "KERNEL_PAGETABLE", "LogInit",
           "SetVCPCount", "InitTimeKeeper", "VDSO.Init", "AddNewCpu",
           "RegisterSysCall", "interrupt::init", "IOWait", "WaitFn">>
    ELSE <<"InitGs", "AddNewCpu", "RegisterSysCall", "interrupt::init">>
         \o (IF id = 1
             THEN (IF autoStart THEN <<"CreateTask(StartRootContainer)">>
                   ELSE <<>>) \o <<"CreateTask(ControllerProcess)">>
             ELSE <<>>)
         \o <<"WaitFn">>

\* The statements of rust_main(heapStart, heapLen, id, vdsoParamAddr,
\* vcpuCnt, autoStart) in the order of the code.
BootSteps(id, autoStart) ==
    IF id = 0
    THEN <<"KernelMsg", "ALLOCATOR.Add", "SHARESPACE", "InitGs", "IOURING",
           "SetVcpuCnt", "HYPERCALL_INIT", "KERNEL_PAGETABLE", "LogInit",
           "SetVCPCount", "InitTimeKeeper", "VDSO.Init", "AddNewCpu",
           "RegisterSysCall", "interrupt::init", "IOWait", "WaitFn">>
    ELSE <<"InitGs", "AddNewCpu", "RegisterSysCall", "interrupt::init">>
         \o (IF id = 1
             THEN (IF autoStart THEN <<"CreateTask(StartRootContainer)">>
                   ELSE <<>>) \o <<"CreateTask(ControllerProcess)">>
             ELSE <<>>)
         \o <<"WaitFn">>

\* The process-wide state a statement of the id == 0 branch sets up; the
\* statements after the branch act on the vCPU that runs them.
SetsUp(step) ==
    CASE step = "ALLOCATOR.Add"    -> <<"ALLOCATOR">>
      [] step = "SHARESPACE"       -> <<"SHARESPACE">>
      [] step = "IOURING"          -> <<"IOURING">>
      [] step = "SetVcpuCnt"       -> <<"scheduler">>
      [] step = "HYPERCALL_INIT"   -> <<"INIT">>
      [] step = "KERNEL_PAGETABLE" -> <<"KERNEL_PAGETABLE">>
      [] step = "LogInit"          -> <<"logBuf">>
      [] step = "SetVCPCount"      -> <<"VCPCount">>
      [] step = "InitTimeKeeper"   -> <<"TimeKeeper">>
      [] step = "VDSO.Init"        -> <<"VDSO">>
      [] OTHER                     -> <<>>

\* The VMM has entered rust_main on no vCPU yet.
InitBoot(autoStarts) ==
    \E autoStart \in autoStarts :
        rustMain = [pc        |-> [id \in CpuIds |-> 1],
                autoStart |-> autoStart,
                setUp     |-> <<>>]

\* The next statement of rust_main on vCPU id.
RustMainStep(id) ==
    /\ rustMain.pc[id] <= Len(BootSteps(id, rustMain.autoStart))
    /\ LET step == BootSteps(id, rustMain.autoStart)[rustMain.pc[id]]
       IN  rustMain' = [rustMain EXCEPT !.pc[id] = @ + 1,
                                !.setUp = IF id = 0 THEN @ \o SetsUp(step)
                                          ELSE @]
    /\ UNCHANGED nonBootVars

NextBoot == \E id \in CpuIds : RustMainStep(id)

(***************************************************************************)
(*                The locks of the timers and of TIMER_STORE               *)
(***************************************************************************)

\* Cap on the number of calls (Reset, Stop, Fire, Drop, Trigger, nested ones
\* included) one thread starts.
MaxNested == 3

\* The locks: TIMER_STORE's QMutex, and the QMutex of each RawTimer.
StoreLock == 0

LockIds == {StoreLock} \cup TimerIds

\* What a thread does next: take or release a lock, run the notifier, or
\* call a function of a timer (id) or of TIMER_STORE (id = StoreLock).
Ins(op, id) == [op |-> op, id |-> id]

\* The block of a batched Stop or Reset: both locks, the store's first; the
\* guards are released in the reverse order of their declaration.
UnderBoth(id) ==
    <<Ins("lock", StoreLock), Ins("lock", id), Ins("unlock", id),
      Ins("unlock", StoreLock)>>

\* The block of a call in raw mode, or of Fire: the timer's lock alone.
UnderTimer(id) == <<Ins("lock", id), Ins("unlock", id)>>

\* A statement on TIMER_STORE.lock(): the guard lives to its end.
UnderStore == <<Ins("lock", StoreLock), Ins("unlock", StoreLock)>>

\* A Stop that takes the timer's lock before TIMER_STORE's.
StopPathsTimerFirst(raw, id) ==
    IF raw THEN {UnderTimer(id)}
    ELSE {<<Ins("lock", id), Ins("lock", StoreLock), Ins("unlock", StoreLock),
            Ins("unlock", id)>> \o tail :
            tail \in {<<>>, <<Ins("Trigger", StoreLock)>>}}

\* RawTimer::Stop (raw_timer.rs 144-167): the paths through it.  In raw mode
\* StopRaw under the timer's lock; else the block under both locks, and
\* TIMER_STORE.Trigger(0) after it if the timer was Running.
StopPaths(raw, id) ==
    IF raw THEN {UnderTimer(id)}
    ELSE {UnderBoth(id) \o tail :
            tail \in {<<>>, <<Ins("Trigger", StoreLock)>>}}

\* RawTimer::Reset (raw_timer.rs 176-219): ResetRaw under the timer's lock;
\* else the block under both locks, left by the early return or followed by
\* TIMER_STORE.Trigger(0).  With delta = 0 the timer's lock is released
\* before RemoveTimer, the store's after it.
ResetPaths(raw, id) ==
    IF raw THEN {UnderTimer(id)}
    ELSE {UnderBoth(id) \o tail :
            tail \in {<<>>, <<Ins("Trigger", StoreLock)>>}}

\* RawTimer::Fire (raw_timer.rs 221-237): the test under the timer's lock,
\* then, unless the fire is out of date, the notifier and, if it returns a
\* positive delta, self.Reset(delta).
FirePaths(id) ==
    {UnderTimer(id) \o tail :
        tail \in {<<>>, <<Ins("notifier", id)>>,
                  <<Ins("notifier", id), Ins("Reset", id)>>}}

\* RawTimer::Drop (raw_timer.rs 239-243): Stop, then self.lock().TM.clone().
DropPaths(id) == {<<Ins("Stop", id)>> \o UnderTimer(id)}

\* TimerStore::Trigger (timer_store.rs 91-152): self.lock().GetFirst(now),
\* then either tu.Fire() of some timer and the loop again, or the final block
\* under the store's lock.
TriggerPaths ==
    {UnderStore \o <<Ins("Fire", id), Ins("Trigger", StoreLock)>> :
        id \in TimerIds}
    \cup {UnderStore \o UnderStore}

\* The paths through the function a call instruction names.
PathsOf(raw, ins) ==
    CASE ins.op = "Stop"    -> StopPaths(raw, ins.id)
      [] ins.op = "Reset"   -> ResetPaths(raw, ins.id)
      [] ins.op = "Fire"    -> FirePaths(ins.id)
      [] ins.op = "Drop"    -> DropPaths(ins.id)
      [] ins.op = "Trigger" -> TriggerPaths

CallOps == {"Stop", "Reset", "Fire", "Drop", "Trigger"}

\* The calls a thread makes from outside: on a timer, or TIMER_STORE.Trigger
\* from the completion of the aggregate timeout (batched mode only).
EntryCalls(raw) ==
    {Ins(op, id) : op \in {"Stop", "Reset", "Fire", "Drop"}, id \in TimerIds}
    \cup (IF raw THEN {} ELSE {Ins("Trigger", StoreLock)})

InitLocks(raws) ==
    \E raw \in raws :
        locks = [raw    |-> raw,
                 owner  |-> [l \in LockIds |-> 0],
                 todo   |-> [th \in Threads |-> <<>>],
                 held   |-> [th \in Threads |-> <<>>],
                 nested |-> [th \in Threads |-> 0]]

\* A thread at rest calls a function of a timer or of the store.
LockCall(th) ==
    /\ locks.todo[th] = <<>>
    /\ locks.nested[th] < MaxNested
    /\ \E ins \in EntryCalls(locks.raw) :
          locks' = [locks EXCEPT !.todo[th] = <<ins>>]
    /\ UNCHANGED nonLockVars

\* A path that makes no further call.
CallFree(path) == \A k \in 1..Len(path) : path[k].op \notin CallOps

\* The paths a thread may take: once it has started MaxNested calls, those
\* that make no further call, if there are any.
BoundedPaths(th, paths) ==
    IF locks.nested[th] >= MaxNested /\ \E p \in paths : CallFree(p)
    THEN {p \in paths : CallFree(p)}
    ELSE paths

\* A thread enters the function it is to call, along one of its paths.
LockEnter(th) ==
    /\ locks.todo[th] # <<>>
    /\ Head(locks.todo[th]).op \in CallOps
    /\ \E path \in BoundedPaths(th, PathsOf(locks.raw, Head(locks.todo[th]))) :
          locks' = [locks EXCEPT !.todo[th] = path \o Tail(@),
                                 !.nested[th] = @ + 1]
    /\ UNCHANGED nonLockVars

\* QMutex::lock: the thread spins until the lock is free and takes it.
LockAcquire(th) ==
    /\ locks.todo[th] # <<>>
    /\ Head(locks.todo[th]).op = "lock"
    /\ locks.owner[Head(locks.todo[th]).id] = 0
    /\ locks' = [locks EXCEPT !.owner[Head(locks.todo[th]).id] = th,
                              !.held[th] = Append(@, Head(locks.todo[th]).id),
                              !.todo[th] = Tail(@)]
    /\ UNCHANGED nonLockVars

\* The guard of a lock is dropped.
LockRelease(th) ==
    /\ locks.todo[th] # <<>>
    /\ Head(locks.todo[th]).op = "unlock"
    /\ locks' = [locks EXCEPT
                    !.owner[Head(locks.todo[th]).id] = 0,
                    !.held[th] = SelectSeq(@, LAMBDA l :
                                     l # Head(locks.todo[th]).id),
                    !.todo[th] = Tail(@)]
    /\ UNCHANGED nonLockVars

\* timer.Timeout(): the notifier runs.
LockNotifier(th) ==
    /\ locks.todo[th] # <<>>
    /\ Head(locks.todo[th]).op = "notifier"
    /\ locks' = [locks EXCEPT !.todo[th] = Tail(@)]
    /\ UNCHANGED nonLockVars

NextLocks ==
    \E th \in Threads :
        \/ LockCall(th)
        \/ LockEnter(th)
        \/ LockAcquire(th)
        \/ LockRelease(th)
        \/ LockNotifier(th)

(***************************************************************************)
(*                One timer in raw mode and in batched mode                *)
(***************************************************************************)

\* Cap on the number of calls made on the timer.
MaxOps == 4

\* The deltas of a Reset: the cancel, one within PROCESS_TIME and one beyond;
\* and what the notifier returns: 0, or the period of a periodic timer.
ModeDeltas == {0, PROCESS_TIME, 2 * PROCESS_TIME}

ModeNotifierDeltas == {0, 2 * PROCESS_TIME}

\* A RawTimerInternal as RawTimer::New builds it.
NewTimer == [State |-> "Stopped", SeqNo |-> 0]

\* The outcome of a call: the timer after it, what it returned ("none" for
\* Fire, which returns nothing), and how often the notifier ran.
Outcome(t, ret, fired) == [t |-> t, ret |-> ret, fired |-> fired]

\* RawTimerInternal::ResetRaw (raw_timer.rs 55-82).
ResetRawOne(t, delta) ==
    IF delta = 0
    THEN IF t.State # "Running" THEN Outcome(t, "false", 0)
         ELSE Outcome([t EXCEPT !.SeqNo = @ + 1], "true", 0)
    ELSE Outcome([State |-> "Running", SeqNo |-> t.SeqNo + 1], "false", 0)

\* RawTimer::StopRaw (raw_timer.rs 123-137) and the batched RawTimer::Stop
\* (raw_timer.rs 149-166): the state becomes Stopped, the result is false.
StopOne(t) == Outcome([t EXCEPT !.State = "Stopped"], "false", 0)

\* RawTimer::Reset in batched mode (raw_timer.rs 181-219), its
\* TIMER_STORE.Trigger(0) included: the drain takes the entry just stored if
\* its expire is within PROCESS_TIME and fires it, and the notifier's delta nd
\* (beyond PROCESS_TIME when positive) arms the timer again.
ResetStoreOne(t, delta, nd) ==
    IF delta = 0
    THEN IF t.State # "Running" THEN Outcome(t, "false", 0)
         ELSE Outcome([State |-> "Stopped", SeqNo |-> t.SeqNo + 1], "true", 0)
    ELSE IF delta > PROCESS_TIME
    THEN Outcome([State |-> "Running", SeqNo |-> t.SeqNo + 1], "false", 0)
    ELSE IF nd > 0
    THEN Outcome([State |-> "Running", SeqNo |-> t.SeqNo + 2], "false", 1)
    ELSE Outcome([State |-> "Expired", SeqNo |-> t.SeqNo + 1], "false", 1)

\* RawTimer::Reset (raw_timer.rs 176-219) in either mode.
ResetOne(raw, t, delta, nd) ==
    IF raw THEN ResetRawOne(t, delta) ELSE ResetStoreOne(t, delta, nd)

\* RawTimer::Fire (raw_timer.rs 221-237); nd is what the notifier returns.
FireOne(raw, t, seq, nd) ==
    IF seq # t.SeqNo \/ t.State # "Running" THEN Outcome(t, "none", 0)
    ELSE IF nd > 0
    THEN LET r == ResetOne(raw, [t EXCEPT !.State = "Expired"], nd, nd)
         IN  Outcome(r.t, "none", 1 + r.fired)
    ELSE Outcome([t EXCEPT !.State = "Expired"], "none", 1)

InitModes ==
    modes = [raw |-> Outcome(NewTimer, "none", 0),
             store |-> Outcome(NewTimer, "none", 0),
             call |-> "none", ops |-> 0]

AfterCall(call, r, s) ==
    /\ modes.ops < MaxOps
    /\ modes' = [raw |-> r, store |-> s, call |-> call, ops |-> modes.ops + 1]
    /\ UNCHANGED nonModeVars

\* timer.Reset(delta) in both modes.
ResetBoth(delta, nd) ==
    AfterCall("Reset", ResetOne(TRUE, modes.raw.t, delta, nd),
              ResetOne(FALSE, modes.store.t, delta, nd))

\* timer.Stop() in both modes.
StopBoth == AfterCall("Stop", StopOne(modes.raw.t), StopOne(modes.store.t))

\* timer.Fire(seq) in both modes.
FireBoth(seq, nd) ==
    AfterCall("Fire", FireOne(TRUE, modes.raw.t, seq, nd),
              FireOne(FALSE, modes.store.t, seq, nd))

NextModes ==
    \/ \E delta \in ModeDeltas, nd \in ModeNotifierDeltas : ResetBoth(delta, nd)
    \/ StopBoth
    \/ \E seq \in 0..(2 * MaxOps), nd \in ModeNotifierDeltas : FireBoth(seq, nd)

(***************************************************************************)
(*   SocketOperations::RecvMsg on a socket with buffered I/O               *)
(*   (socket/hostinet/socket.rs)                                           *)
(***************************************************************************)

\* The largest Iovs(dsts).Count() of a call.
MaxIovLen == 4

\* The errors BufSockRead reports other than EWOULDBLOCK.
ReadErrors == {"ECONNRESET"}

\* The results of one IOURING.BufSockRead(task, self, dsts) when dsts has room
\* for `room` bytes: Ok(n) after copying n bytes from the socket buffer into
\* dsts (Ok(0) is the end of the stream), EWOULDBLOCK when the buffer is empty
\* and the stream is open, or another error.
BufSockRead(room) ==
    {[ok |-> TRUE, n |-> n, err |-> "none"] : n \in 0..room}
    \cup {[ok |-> FALSE, n |-> 0, err |-> e] : e \in {"EWOULDBLOCK"} \cup ReadErrors}

\* The results of task.blocker.BlockWithMonoTimer(true, deadline).
BlockWithMonoTimer == {"Ok", "ETIMEDOUT", "ErrInterrupted", "EIO"}

NoRet == [kind |-> "none", n |-> 0, err |-> "none", addr |-> FALSE]

InitRecvMsg(any) ==
    \E len \in (IF any THEN 0..MaxIovLen ELSE {0}),
       dontwait \in (IF any THEN BOOLEAN ELSE {FALSE}),
       sender \in (IF any THEN BOOLEAN ELSE {FALSE}) :
        recvMsg = [pc         |-> "first",
                   len        |-> len,       \* Iovs(dsts).Count()
                   dontwait   |-> dontwait,  \* flags & MSG_DONTWAIT != 0
                   sender     |-> sender,    \* senderRequested
                   count      |-> 0,
                   res        |-> 0,
                   copied     |-> 0,   \* bytes BufSockRead has put into dsts
                   registered |-> FALSE,
                   ret        |-> NoRet]

\* return Ok((n, retFlags, addr, controlData)); the deferred EventUnregister
\* runs on the way out.
RecvOk(r, n, addr) ==
    [r EXCEPT !.pc = "done", !.registered = FALSE,
              !.ret = [kind |-> "Ok", n |-> n, err |-> "none", addr |-> addr]]

\* return Err(e)
RecvErr(r, e) ==
    [r EXCEPT !.pc = "done", !.registered = FALSE,
              !.ret = [kind |-> "Err", n |-> 0, err |-> e, addr |-> FALSE]]

\* count += n after BufSockRead returned Ok(n); dsts drops its first n bytes.
Counted(r, n) == [r EXCEPT !.count = r.count + n, !.copied = r.copied + n]

\* What follows `break 'main`: the sender address if asked for, and
\* Ok((res, ...)).
RecvTail(r) == RecvOk(r, r.res, r.sender)

\* One turn of the first loop, the one before the task registers for
\* EVENT_READ.
RecvFirstTurn(r, out) ==
    IF ~out.ok /\ out.err = "EWOULDBLOCK"
    THEN IF r.dontwait
         THEN IF r.count > 0 THEN RecvOk(r, r.count, FALSE)
                             ELSE RecvErr(r, "EWOULDBLOCK")
         ELSE [r EXCEPT !.pc = "main", !.registered = TRUE]
    ELSE IF ~out.ok
    THEN IF r.count > 0 THEN RecvOk(r, r.count, FALSE) ELSE RecvErr(r, out.err)
    ELSE IF out.n = 0
    THEN RecvOk(r, r.count, FALSE)
    ELSE LET c == Counted(r, out.n)
         IN  IF c.count = r.len THEN RecvOk(c, c.count, FALSE) ELSE c

\* One turn of the inner loop of 'main.
RecvMainTurn(r, out) ==
    IF ~out.ok /\ out.err = "EWOULDBLOCK"
    THEN IF r.count > 0 THEN RecvTail([r EXCEPT !.res = r.count])
                        ELSE [r EXCEPT !.pc = "block"]
    ELSE IF ~out.ok
    THEN IF r.count > 0 THEN RecvTail([r EXCEPT !.res = r.count])
                        ELSE RecvErr(r, out.err)
    ELSE IF out.n = 0
    THEN RecvTail(r)
    ELSE LET c == Counted(r, out.n)
         IN  IF c.count = r.len THEN RecvTail([c EXCEPT !.res = c.count]) ELSE c

\* The match on BlockWithMonoTimer at the end of a turn of 'main.
RecvAfterBlock(r, b) ==
    IF b = "Ok" THEN [r EXCEPT !.pc = "main"]
    ELSE IF r.count > 0 THEN RecvTail([r EXCEPT !.res = r.count])
    ELSE IF b = "ETIMEDOUT" THEN RecvErr(r, "EWOULDBLOCK")
    ELSE IF b = "ErrInterrupted" THEN RecvErr(r, "ERESTARTSYS")
    ELSE RecvErr(r, b)

RecvFirst ==
    /\ recvMsg.pc = "first"
    /\ \E out \in BufSockRead(recvMsg.len - recvMsg.count) :
          recvMsg' = RecvFirstTurn(recvMsg, out)
    /\ UNCHANGED nonRecvVars

RecvMain ==
    /\ recvMsg.pc = "main"
    /\ \E out \in BufSockRead(recvMsg.len - recvMsg.count) :
          recvMsg' = RecvMainTurn(recvMsg, out)
    /\ UNCHANGED nonRecvVars

RecvBlock ==
    /\ recvMsg.pc = "block"
    /\ \E b \in BlockWithMonoTimer : recvMsg' = RecvAfterBlock(recvMsg, b)
    /\ UNCHANGED nonRecvVars

NextRecv ==
    \/ RecvFirst
    \/ RecvMain
    \/ RecvBlock

(***************************************************************************)
(*                           Specifications                                *)
(***************************************************************************)

Init ==
    /\ InitQLock(FALSE)
    /\ InitTimer(FALSE)
    /\ InitAlloc(FALSE)
    /\ InitHost
    /\ InitTask
    /\ InitTids
    /\ InitNeedFree
    /\ InitModes
    /\ InitRecvMsg(FALSE)
    /\ InitLocks({FALSE})
    /\ InitBoot({FALSE})
    /\ InitExit(FALSE)
    /\ InitPrefetch({MidFault})
    /\ InitSq(U32(0, 0))
    /\ InitTrap({}, {})

InitAnyTimerMode ==
    /\ InitQLock(FALSE)
    /\ \E raw \in BOOLEAN : InitTimer(raw)
    /\ InitAlloc(FALSE)
    /\ InitHost
    /\ InitTask
    /\ InitTids
    /\ InitNeedFree
    /\ InitModes
    /\ InitRecvMsg(FALSE)
    /\ InitLocks({FALSE})
    /\ InitBoot({FALSE})
    /\ InitExit(FALSE)
    /\ InitPrefetch({MidFault})
    /\ InitSq(U32(0, 0))
    /\ InitTrap({}, {})

\* The allocator right after Add, or in a kernel that has booted.
InitAnyHeap ==
    /\ InitQLock(FALSE)
    /\ InitTimer(FALSE)
    /\ \E boot \in BOOLEAN : InitAlloc(boot)
    /\ InitHost
    /\ InitTask
    /\ InitTids
    /\ InitNeedFree
    /\ InitModes
    /\ InitRecvMsg(FALSE)
    /\ InitLocks({FALSE})
    /\ InitBoot({FALSE})
    /\ InitExit(FALSE)
    /\ InitPrefetch({MidFault})
    /\ InitSq(U32(0, 0))
    /\ InitTrap({}, {})

\* A thread that blocks or ignores some of the fault signals.
InitAnyMask ==
    /\ InitQLock(FALSE)
    /\ InitTimer(FALSE)
    /\ InitAlloc(FALSE)
    /\ InitHost
    /\ InitTask
    /\ InitTids
    /\ InitNeedFree
    /\ InitModes
    /\ InitRecvMsg(FALSE)
    /\ InitLocks({FALSE})
    /\ InitBoot({FALSE})
    /\ InitExit(FALSE)
    /\ InitPrefetch({MidFault})
    /\ InitSq(U32(0, 0))
    /\ \E blocked, ignored \in SUBSET {"SIGBUS"} : InitTrap(blocked, ignored)

\* A submission queue whose counters are at 0 or close to a wrap-around.
InitAnySqStart ==
    /\ InitQLock(FALSE)
    /\ InitTimer(FALSE)
    /\ InitAlloc(FALSE)
    /\ InitHost
    /\ InitTask
    /\ InitTids
    /\ InitNeedFree
    /\ InitModes
    /\ InitRecvMsg(FALSE)
    /\ InitLocks({FALSE})
    /\ InitBoot({FALSE})
    /\ InitExit(FALSE)
    /\ InitPrefetch({MidFault})
    /\ InitTrap({}, {})
    /\ \E start \in StartCounters : InitSq(start)

InitWokenRecord ==
    /\ InitQLock(TRUE)
    /\ InitTimer(FALSE)
    /\ InitAlloc(FALSE)
    /\ InitHost
    /\ InitTask
    /\ InitTids
    /\ InitNeedFree
    /\ InitModes
    /\ InitRecvMsg(FALSE)
    /\ InitLocks({FALSE})
    /\ InitBoot({FALSE})
    /\ InitExit(FALSE)
    /\ InitPrefetch({MidFault})
    /\ InitSq(U32(0, 0))
    /\ InitTrap({}, {})

SpecQLock == Init /\ [][NextQLock]_vars

SpecQLockWoken == InitWokenRecord /\ [][NextQLock]_vars

\* What the scheduling gives a task of the QLock: a holder drops its guard,
\* a blocked task whose entry has fired is run again, and a running task
\* goes on through EventUnregister and the next turn of the loop.  Nothing
\* makes a task call Lock, and nothing makes a signal arrive.
FairQLock ==
    \A t \in Tasks :
        /\ WF_vars(Unlock(t))
        /\ WF_vars(BlockGeneralOk(t))
        /\ WF_vars(LockUnregister(t))
        /\ WF_vars(lpc[t] = "retry" /\ LockAttempt(t))

SpecQLockFair == Init /\ [][NextQLock]_vars /\ FairQLock

SpecTimer == InitAnyTimerMode /\ [][NextTimer]_vars

\* The batched mode with the drains noting what they fired last.
InitDrainTrace ==
    /\ InitQLock(FALSE)
    /\ InitTimerTraced(FALSE, TRUE)
    /\ InitAlloc(FALSE)
    /\ InitHost
    /\ InitTask
    /\ InitTids
    /\ InitModes
    /\ InitRecvMsg(FALSE)
    /\ InitLocks({FALSE})
    /\ InitBoot({FALSE})
    /\ InitExit(FALSE)
    /\ InitPrefetch({MidFault})
    /\ InitSq(U32(0, 0))
    /\ InitTrap({}, {})
    /\ InitNeedFree

SpecTimerDrain == InitDrainTrace /\ [][NextTimerStore]_vars

SpecAlloc == InitAnyHeap /\ [][NextAlloc]_vars

SpecHost == Init /\ [][NextHost]_vars

SpecHostPark == Init /\ [][NextHostPark]_vars

SpecTask == Init /\ [][NextTask]_vars

SpecTids == Init /\ [][NextTids]_vars

SpecTrap == InitAnyMask /\ [][NextTrap]_vars

SpecSq == InitAnySqStart /\ [][NextSq]_vars

SpecModes == Init /\ [][NextModes]_vars


\* The locks in either timer mode.
InitAnyLockMode ==
    /\ InitQLock(FALSE)
    /\ InitTimer(FALSE)
    /\ InitAlloc(FALSE)
    /\ InitHost
    /\ InitTask
    /\ InitTids
    /\ InitNeedFree
    /\ InitModes
    /\ InitRecvMsg(FALSE)
    /\ InitPrefetch({MidFault})
    /\ InitExit(FALSE)
    /\ InitBoot({FALSE})
    /\ InitLocks(BOOLEAN)
    /\ InitSq(U32(0, 0))
    /\ InitTrap({}, {})

SpecLocks == InitAnyLockMode /\ [][NextLocks]_vars

\* rust_main with either value of autoStart.
InitAnyBoot ==
    /\ InitQLock(FALSE)
    /\ InitTimer(FALSE)
    /\ InitAlloc(FALSE)
    /\ InitHost
    /\ InitTask
    /\ InitTids
    /\ InitNeedFree
    /\ InitModes
    /\ InitRecvMsg(FALSE)
    /\ InitLocks({FALSE})
    /\ InitPrefetch({MidFault})
    /\ InitExit(FALSE)
    /\ InitBoot(BOOLEAN)
    /\ InitSq(U32(0, 0))
    /\ InitTrap({}, {})

SpecBoot == InitAnyBoot /\ [][NextBoot]_vars

\* Every buffer length and flag combination of a RecvMsg call.
InitAnyRecv ==
    /\ InitQLock(FALSE)
    /\ InitTimer(FALSE)
    /\ InitAlloc(FALSE)
    /\ InitHost
    /\ InitTask
    /\ InitTids
    /\ InitNeedFree
    /\ InitModes
    /\ InitRecvMsg(TRUE)
    /\ InitLocks({FALSE})
    /\ InitPrefetch({MidFault})
    /\ InitExit(FALSE)
    /\ InitBoot({FALSE})
    /\ InitSq(U32(0, 0))
    /\ InitTrap({}, {})

SpecRecv == InitAnyRecv /\ [][NextRecv]_vars

\* MainRun of any exiting task.
InitAnyExit ==
    /\ InitQLock(FALSE)
    /\ InitTimer(FALSE)
    /\ InitAlloc(FALSE)
    /\ InitHost
    /\ InitTask
    /\ InitTids
    /\ InitNeedFree
    /\ InitModes
    /\ InitRecvMsg(FALSE)
    /\ InitLocks({FALSE})
    /\ InitBoot({FALSE})
    /\ InitPrefetch({MidFault})
    /\ InitExit(TRUE)
    /\ InitSq(U32(0, 0))
    /\ InitTrap({}, {})

SpecExit == InitAnyExit /\ [][NextExit]_vars

\* The prefetch loop after any fault.
InitAnyFault ==
    /\ InitQLock(FALSE)
    /\ InitTimer(FALSE)
    /\ InitAlloc(FALSE)
    /\ InitHost
    /\ InitTask
    /\ InitTids
    /\ InitNeedFree
    /\ InitModes
    /\ InitRecvMsg(FALSE)
    /\ InitLocks({FALSE})
    /\ InitBoot({FALSE})
    /\ InitExit(FALSE)
    /\ InitPrefetch(Faults)
    /\ InitSq(U32(0, 0))
    /\ InitTrap({}, {})

SpecPrefetch == InitAnyFault /\ [][NextPrefetch]_vars

\* NeedFree called in any counter state.
InitAnyCounters ==
    /\ InitQLock(FALSE)
    /\ InitTimer(FALSE)
    /\ \E c \in CounterStates : InitCounters(c)
    /\ InitHost
    /\ InitTask
    /\ InitTids
    /\ InitModes
    /\ InitRecvMsg(FALSE)
    /\ InitLocks({FALSE})
    /\ InitBoot({FALSE})
    /\ InitExit(FALSE)
    /\ InitPrefetch({MidFault})
    /\ InitSq(U32(0, 0))
    /\ InitTrap({}, {})
    /\ InitNeedFree

\* A drain pass started with blocks parked in two classes.
InitAnyParked ==
    /\ InitQLock(FALSE)
    /\ InitTimer(FALSE)
    /\ \E keep15 \in Keeps, n11 \in Parks11, n10 \in Parks10 :
            InitParked(keep15, n11, n10)
    /\ InitHost
    /\ InitTask
    /\ InitTids
    /\ InitModes
    /\ InitRecvMsg(FALSE)
    /\ InitLocks({FALSE})
    /\ InitBoot({FALSE})
    /\ InitExit(FALSE)
    /\ InitPrefetch({MidFault})
    /\ InitSq(U32(0, 0))
    /\ InitTrap({}, {})
    /\ InitNeedFree

SpecDrain == InitAnyParked /\ [][NextDrain]_vars

SpecNeedFree == InitAnyCounters /\ [][NextNeedFree]_vars


\* C2: a Fire(seq) whose seq differs from the timer's current SeqNo is
\* dropped: the step that runs its test returns from Fire without reaching the
\* notifier, and changes neither any timer's State nor any SeqNo.
C2_StaleFireDropped ==
    [][\A th \in Threads :
          (/\ HasTop(th, "Fire", "check")
           /\ Top(th).seq /= tSeqNo[Top(th).id]
           /\ stack'[th] /= stack[th])
          => (/\ stack'[th] = Popped(th)
              /\ tState' = tState
              /\ tSeqNo' = tSeqNo)]_vars

\* C2 witness: a Fire with a stale sequence number has run its test on a
\* timer that was re-armed (Running) in the meantime, and was dropped.
C2_Witness ==
    /\ fireLog.out = "staleSeq"
    /\ fireLog.seq < tSeqNo[fireLog.id]
    /\ tState[fireLog.id] = "Running"

\* C3: no thread ever stands before the notifier call of a Fire (past the
\* test of Fire) for an arming <<id, seq>> that a Stop() or a Reset(0) has
\* cancelled while the timer was armed (Running), in raw and in batched mode.
C3_NoNotifyAfterCancel ==
    \A th \in Threads : \A i \in 1..Len(stack[th]) :
        (stack[th][i].f = "Fire" /\ stack[th][i].pc = "notify")
        => <<stack[th][i].id, stack[th][i].seq>> \notin cancelled

\* C3 witness (batched mode): a Fire that was in flight for a cancelled
\* arming has run its test and was dropped.
C3_Witness ==
    /\ ~rawMode
    /\ fireLog.out /= "fired"
    /\ <<fireLog.id, fireLog.seq>> \in cancelled

\* C3, the same in raw mode.
C3_WitnessRaw ==
    /\ rawMode
    /\ fireLog.out /= "fired"
    /\ <<fireLog.id, fireLog.seq>> \in cancelled

\* C4 as claimed: every Reset (any delta) and every Stop leaves SeqNo strictly
\* greater than before.
C4_SeqNoStrictOnEveryCall ==
    [][\A th \in Threads : \A id \in TimerIds :
          /\ \A delta \in Deltas :
                Reset(th, id, delta) => tSeqNo'[id] > tSeqNo[id]
          /\ Stop(th, id) => tSeqNo'[id] > tSeqNo[id]]_vars

\* C4 as amended: SeqNo never decreases; a Reset with delta > 0, and a
\* Reset(0) of a Running timer, raises it by exactly one; Stop, and a Reset(0)
\* of a timer that is not Running, leave it as it is.
C4_SeqNoAmended ==
    [][/\ \A id \in TimerIds : tSeqNo'[id] >= tSeqNo[id]
       /\ \A th \in Threads : \A id \in TimerIds :
          /\ \A delta \in Deltas :
                Reset(th, id, delta) =>
                    tSeqNo'[id] = IF delta > 0 \/ tState[id] = "Running"
                                  THEN tSeqNo[id] + 1 ELSE tSeqNo[id]
          /\ (FireReset(th) /\ Top(th).id = id) => tSeqNo'[id] = tSeqNo[id] + 1
          /\ Stop(th, id) => tSeqNo'[id] = tSeqNo[id]]_vars

\* C4 witness: a timer was armed, cancelled by Stop with its SeqNo left at 1,
\* and armed again with SeqNo 2.
C4_Witness ==
    \E id \in TimerIds :
        /\ <<id, 1>> \in cancelled
        /\ tSeqNo[id] = 2
        /\ tState[id] = "Running"

\* The holders of a QLockGuard.
Holders == {t \in Tasks : lpc[t] = "holding"}

\* The tasks whose entry is linked on the lock's queue.
Registered == {queue[i].task : i \in 1..Len(queue)}

\* C1: under every interleaving of Lock calls, guard drops and interrupted
\* Lock calls, at most one task holds a QLockGuard, and a guard is held only
\* while the locked flag is set.
C1_MutualExclusion ==
    /\ Cardinality(Holders) <= 1
    /\ (Holders /= {}) => locked

\* C1 witness: one task holds the guard while a second is registered and
\* blocked and a third has come back from an interrupted Lock.
C1_Witness ==
    /\ Cardinality(Holders) = 1
    /\ \E t \in Tasks : lpc[t] = "blocked" /\ t \in Registered
    /\ \E t \in Tasks : lockRet[t] = "Err" /\ lpc[t] = "idle"

\* The bytes callers and long-lived owners hold: the sum of the class sizes
\* of their blocks.
RECURSIVE SumSizes(_)
SumSizes(S) ==
    IF S = {} THEN 0
    ELSE LET b == CHOOSE x \in S : TRUE
         IN  LayoutSize(b.layout) + SumSizes(S \ {b})

HeldBytes == SumSizes(held \cup kept)

\* The bytes parked in the tier-2 lists.
RECURSIVE SumParked(_)
SumParked(c) ==
    IF c >= CLASS_CNT THEN 0 ELSE Len(bufs[c]) * 2^c + SumParked(c + 1)

ParkedBytes == SumParked(0)

\* C5: whenever no call into the allocator is in progress, free plus the
\* class sizes of all blocks held by callers equals total, whether the blocks
\* were served by the buddy heap or by a tier-2 list.
C5_FreePlusHeldIsTotal ==
    allocHalt = "none" => free + HeldBytes = total

\* C6: whenever no call into the allocator is in progress, after any alloc,
\* dealloc (of a class parked in tier 2 or of a larger class) and drain
\* pass, bufSize is at most free.
C6_BufSizeWithinFree ==
    allocHalt = "none" => bufSize <= free

\* A step of vCPU v that performs the swap of its Notify.
SwapStep(v) == vpc[v] = "notify" /\ vpc'[v] # "notify"

\* A step of vCPU v that performs the eventfd write of its Notify.
WriteStep(v) == vpc[v] = "write" /\ vpc'[v] # "write"

\* C7: a guest step changes the host I/O thread state only through the swap
\* of a Notify, and only to RUNNING; a Notify goes on to write the eventfd if
\* and only if its own swap read WAITING, and the eventfd is written by no
\* other guest step; of the Notify calls that swap after the host stored
\* WAITING, at most one (the first) reads WAITING and writes.
C7_NotifySwapAndEventfd ==
    /\ [](Cardinality(wakers) <= 1)
    /\ [](\A v \in Vcpus : vpc[v] = "write" => vcall[v].old = "WAITING")
    /\ [][/\ (hpc' = hpc /\ ioThreadState' # ioThreadState)
               => /\ ioThreadState' = "RUNNING"
                  /\ \E v \in Vcpus : SwapStep(v)
          /\ \A v \in Vcpus :
               SwapStep(v)
                 => /\ ioThreadState' = "RUNNING"
                    /\ vcall'[v].old = ioThreadState
                    /\ (vpc'[v] = "write") <=> (ioThreadState = "WAITING")
          /\ (eventfd' > eventfd) <=> (\E v \in Vcpus : WriteStep(v))
          /\ (eventfd' > eventfd) => eventfd' = eventfd + 1]_vars

\* C7 witness: the host thread is still parked, two vCPUs have swapped since
\* it stored WAITING: one read WAITING and has written the eventfd once, the
\* other read RUNNING and is past its Notify without a write.
C7_Witness ==
    /\ hpc = "parked"
    /\ eventfd = 1
    /\ \E v, w \in Vcpus :
         /\ v # w
         /\ wakers = {v}
         /\ vpc[v] \in {"undo", "push"} /\ vcall[v].old = "WAITING"
         /\ vpc[w] = "push" /\ vcall[w].old = "RUNNING"

\* The calls that have counted their message and neither queued it nor taken
\* the count back, and the pop that has taken a message and not yet counted.
CountedNotQueued ==
    Cardinality({v \in Vcpus : vpc[v] \in {"notify", "write", "undo", "push"}})

PoppedNotCounted == IF hpc = "popped" /\ hmsg # NoMsg THEN 1 ELSE 0

\* C8: hostMsgCount is the number of messages in QOutput plus one for every
\* call between its increment and its push (or its promotion) and one for a
\* pop between taking a message and its decrement; so it is never below the
\* number of messages in QOutput, and equals it whenever no Call, AQCall or
\* pop is in progress.
C8_CountMatchesQueue ==
    /\ hostMsgCount = Len(QOutput) + CountedNotQueued + PoppedNotCounted
    /\ hostMsgCount >= Len(QOutput)
    /\ (CountedNotQueued = 0 /\ hpc # "popped")
         => hostMsgCount = Len(QOutput)

\* C8 witness: no call or pop is in progress, the host has popped and served
\* messages before (it runs), and QOutput holds a queued Call and a message
\* of an AQCall, both counted.
C8_Witness ==
    /\ CountedNotQueued = 0
    /\ hpc = "run"
    /\ Len(QOutput) = 2
    /\ hostMsgCount = 2
    /\ \E i, j \in 1..2 : QOutput[i].kind = "QCall" /\ QOutput[j].kind = "Async"
    /\ \A v \in Vcpus : vpc[v] \in {"idle", "wait"}

\* C9 as claimed: hostMsgCount never decreases.
C9_CountMonotonic ==
    [][hostMsgCount' >= hostMsgCount]_vars

\* C9 as amended: hostMsgCount goes up by one exactly when a Call or an AQCall
\* begins, goes down by one exactly when a promoted Call takes its count back
\* or when a pop that returned a message completes, changes in no other step,
\* and is never negative.
C9_CountUpAndDown ==
    /\ [](hostMsgCount >= 0)
    /\ [][/\ hostMsgCount' - hostMsgCount \in {-1, 0, 1}
          /\ (hostMsgCount' > hostMsgCount)
               <=> (\E v \in Vcpus : vpc[v] = "idle" /\ vpc'[v] = "notify")
          /\ (hostMsgCount' < hostMsgCount)
               <=> \/ \E v \in Vcpus : vpc[v] = "undo" /\ vpc'[v] = "hcall"
                   \/ hpc = "popped" /\ hmsg # NoMsg /\ hpc' = "run"]_vars

\* C9 witness: a Call has raised the count and, promoted, has taken it back
\* to 0, while another call's message waits in QOutput for the host's pop.
C9_Witness ==
    \E v, w \in Vcpus :
        /\ vpc[v] = "hcall"
        /\ vpc[w] = "wait"
        /\ hostMsgCount = 1
        /\ Len(QOutput) = 1

\* C10: every task built by Task::Create has its stack base as taskId; its
\* initial saved rsp is base + STACK_SIZE - 32, and that rsp and the value of
\* GetKernelSp, masked with !(STACK_SIZE - 1), both give taskId; so does
\* Task::TaskId() for the stack pointer of the running task wherever it is
\* in the task's stack.
C10_StackIsIdentity ==
    /\ \A t \in taskSet :
         /\ t.taskId = t.stack
         /\ t.rsp = t.stack + DEFAULT_STACK_SIZE - 32
         /\ BitAnd(t.rsp, DEFAULT_STACK_MAST) = t.taskId
         /\ BitAnd(GetKernelSp(t.taskId), DEFAULT_STACK_MAST) = t.taskId
    /\ running # NoTask =>
         /\ running.id = running.stack
         /\ \E t \in taskSet : t.taskId = running.id

\* C10 witness: several tasks exist, and the second stack's task runs with
\* its stack pointer at its kernel stack pointer and has computed its own id.
C10_Witness ==
    /\ Cardinality(taskSet) >= 2
    /\ running.stack = 2 * DEFAULT_STACK_SIZE
    /\ running.rsp = GetKernelSp(running.stack)
    /\ running.id = 2 * DEFAULT_STACK_SIZE

\* C11: for every block handed out, by the buddy heap or by a tier-2 list,
\* the size alloc used is next_pow2(max(s, a, 8)) and the address is a
\* multiple of the alignment asked for; and a dealloc with the same layout
\* works on that same size: it raises free by it and, for a class below
\* CLASS_CNT, appends the block to the tier-2 list of that class.
C11_ClassAndAlignment ==
    /\ [](\A b \in held \cup kept :
            /\ b.size = NextPow2(Max(b.layout.size, Max(b.layout.align, 8)))
            /\ b.ptr % b.layout.align = 0)
    /\ [][\A b \in held \ held' :
            /\ free' = free + b.size
            /\ trailing_zeros(b.size) < CLASS_CNT
                 => bufs'[trailing_zeros(b.size)]
                      = Append(bufs[trailing_zeros(b.size)], b.ptr)]_vars

\* C11 witness: a block asked with alignment 32768 was served by a tier-2
\* list, and a block asked with alignment 4096 was served by the buddy heap
\* at an address other than the start of the arena.
C11_Witness ==
    /\ \E b \in held : b.from = "tier2" /\ b.layout.align = 32768
    /\ \E c \in held :
         c.from = "heap" /\ c.layout.align = 4096 /\ c.ptr # ArenaStart

\* C12: every thread a successful AssignTids has handled appears under
\* exactly one tid in the PID namespace of its thread group and in every
\* ancestor up to the root; in every namespace tasks and tids are inverse to
\* each other; and no two threads of one namespace share a tid.
C12_TidMapsInverse ==
    /\ \A t \in ThreadUids : thrTg[t] # 0 =>
         \A ns \in Ancestors(PIDNamespace(thrTg[t])) :
            /\ Cardinality({tid \in Tids : nsTasks[ns][tid] = t}) = 1
            /\ nsTids[ns][t] # 0
    /\ \A ns \in PidNs :
         /\ \A tid \in Tids :
              nsTasks[ns][tid] # 0 => nsTids[ns][nsTasks[ns][tid]] = tid
         /\ \A t \in ThreadUids :
              nsTids[ns][t] # 0 => nsTasks[ns][nsTids[ns][t]] = t
         /\ \A t1, t2 \in ThreadUids :
              t1 # t2 /\ nsTids[ns][t1] # 0 => nsTids[ns][t1] # nsTids[ns][t2]

\* C12 witness: a thread of the innermost namespace holds one tid there and
\* another in the root, next to a second thread; and a later AssignTids has
\* failed half way and undone its entries.
C12_Witness ==
    /\ \E t, u \in ThreadUids :
         /\ t # u
         /\ thrTg[t] = LeafNs
         /\ thrTg[u] # 0
         /\ nsTids[LeafNs][t] # nsTids[1][t]
    /\ \E f \in ThreadUids : thrTg[f] = 0 /\ thrId[f] # 0

\* The si_code values of the exception policy table.
FPE_INTDIV == 1

FPE_INTOVF == 2

FPE_FLTINV == 7

TRAP_BRKPT == 1

ILL_ILLOPC == 1

BUS_ADRERR == 2

SI_KERNEL == "SIGNAL_INFO_KERNEL"

\* The exception policy table: vector, signal, si_code.
PolicyTable ==
    {<<"DivideByZero", "SIGFPE", FPE_INTDIV>>,
     <<"Overflow", "SIGFPE", FPE_INTOVF>>,
     <<"X87FloatingPointException", "SIGFPE", FPE_FLTINV>>,
     <<"SIMDFloatingPointException", "SIGFPE", FPE_FLTINV>>,
     <<"Debug", "SIGTRAP", TRAP_BRKPT>>,
     <<"Breakpoint", "SIGTRAP", TRAP_BRKPT>>,
     <<"GeneralProtectionFault", "SIGSEGV", SI_KERNEL>>,
     <<"StackSegmentFault", "SIGSEGV", SI_KERNEL>>,
     <<"SegmentNotPresent", "SIGSEGV", SI_KERNEL>>,
     <<"BoundRangeExceeded", "SIGSEGV", SI_KERNEL>>,
     <<"InvalidTSS", "SIGSEGV", SI_KERNEL>>,
     <<"InvalidOpcode", "SIGILL", ILL_ILLOPC>>,
     <<"AlignmentCheck", "SIGBUS", BUS_ADRERR>>}

\* C13: an exception raised in user mode with a vector of the policy table
\* is turned into the signal and si_code of the table; every other vector,
\* and every exception raised in ring 0, panics and queues no signal.
C13_ExceptionPolicy ==
    trapOut.handler = "exception" =>
        LET ev == trapOut.in[1]
            rows == {r \in PolicyTable : r[1] = ev}
        IN  IF trapOut.user /\ rows # {}
            THEN /\ trapOut.outcome = "signal"
                 /\ \A r \in rows :
                      trapOut.sent = [Signo |-> r[2], Code |-> r[3]]
            ELSE /\ trapOut.outcome = "panic"
                 /\ trapOut.sent = NoInfo

\* The outcome the page-fault rules give: "SIGSEGV", "install" or "cow".
C14_Rule(vma, err) ==
    IF vma = NoVma THEN "SIGSEGV"
    ELSE IF vma.kernel \/ ~vma.read THEN "SIGSEGV"
    ELSE IF ~err.P THEN "install"
    ELSE IF err.W /\ vma.private /\ vma.write THEN "cow"
    ELSE "SIGSEGV"

\* What the last user-mode page fault did, in the words of the rules.
C14_Did ==
    IF trapOut.outcome = "resume" /\ tpc = "user"
       /\ trapOut.installed /\ ~trapOut.cow THEN "install"
    ELSE IF trapOut.outcome = "resume" /\ tpc = "user"
       /\ trapOut.cow /\ ~trapOut.installed THEN "cow"
    ELSE IF trapOut.outcome = "signal" /\ ~trapOut.installed /\ ~trapOut.cow
    THEN trapOut.sent.Signo
    ELSE IF trapOut.outcome = "panic" /\ ~trapOut.installed /\ ~trapOut.cow
    THEN "panic"
    ELSE "other"

\* C14 as stated: the outcome of a user-mode page fault is SIGSEGV with no
\* page installed for no VMA, a kernel VMA or a VMA without read permission;
\* else the page is installed and the task resumes when the page is absent;
\* else copy-on-write and resume for a write to a private, writable VMA;
\* else SIGSEGV.
C14_PageFaultOutcome ==
    trapOut.handler = "pagefault" /\ trapOut.user =>
        C14_Did = C14_Rule(trapOut.in[1], trapOut.in[2])

\* C14, amended: as above, but a page-absent fault installs the page and
\* resumes only when InstallPageLocked succeeds; a file-mapping error gives
\* SIGBUS and any other error a panic, with no page installed.  A kernel
\* VMA never serves a user-mode fault.
C14_PageFaultOutcomeAmended ==
    trapOut.handler = "pagefault" /\ trapOut.user =>
        LET vma == trapOut.in[1]
            rule == C14_Rule(vma, trapOut.in[2])
            install == trapOut.in[3]
        IN  /\ C14_Did =
                 IF rule = "install" /\ install = "FileMapError" THEN "SIGBUS"
                 ELSE IF rule = "install" /\ install = "Err" THEN "panic"
                 ELSE rule
            /\ vma # NoVma => (vma.kernel => C14_Did = "SIGSEGV")

\* C14 witness: a page-absent fault installed a page and the task is back in
\* user mode.
C14_Witness ==
    /\ trapOut.handler = "pagefault"
    /\ trapOut.user
    /\ trapOut.installed
    /\ tpc = "user"
    /\ ~trapOut.in[2].P

\* C15: a file-mapping error while installing a page sends SIGBUS; and the
\* signal a user-mode page fault sends is the signal it forces, so that the
\* thread neither blocks nor ignores it and it does not stay queued.
C15_ForcedIsSent ==
    trapOut.handler = "pagefault" /\ trapOut.user
    /\ trapOut.outcome = "signal" =>
        /\ trapOut.in[3] = "FileMapError" => trapOut.sent.Signo = "SIGBUS"
        /\ trapOut.forced = trapOut.sent.Signo
        /\ trapOut.sent.Signo \notin sigBlocked \cup sigIgnored
        /\ trapOut.sent \notin sigPending

C19_ForeignDeallocDropped ==
    [][calls' = calls + 1 /\ lastCall' = "foreign" =>
          /\ UNCHANGED <<total, free, bufSize, bufs, free_list>>
          /\ allocHalt' = "none"]_vars

\* C19 witness: a block that does not lie inside the arena was handed to
\* dealloc while the allocator had blocks parked in tier 2 and handed out.
C19_Witness ==
    /\ lastCall = "foreign"
    /\ bufSize > 0
    /\ held # {}

\* C20: the boolean a timer call returns tells whether the timer was active:
\* every Stop and every Reset returns true exactly when it finds the timer
\* Running.
C20_ResultsReportActive ==
    [][\A th \in Threads : \A id \in TimerIds :
          /\ Stop(th, id) => (StopResult(id) <=> tState[id] = "Running")
          /\ \A delta \in Deltas :
                Reset(th, id, delta) =>
                    (ResetResult(id, delta) <=> tState[id] = "Running")]_vars

\* A thread of the batched mode is about to call the notifier of a timer
\* that the drain loop took from the store: Fire's test has passed, so the
\* timer was neither reset nor cancelled since it was armed.
Notifying(th) == ~rawMode /\ HasTop(th, "Fire", "notify")

\* No timer call is in progress on any thread.
Quiescent == \A th \in Threads : stack[th] = <<>>

\* C16 as stated: in batched mode the notifier of a timer armed by
\* Reset(delta), delta > 0, is invoked at a time t with
\* deadline <= t < deadline + PROCESS_TIME, deadline being the time of the
\* Reset plus delta; the upper bound is for a drain that the aggregate
\* timeout started and that still runs at the aggregate's deadline.
C16_FiresInDeadlineWindow ==
    \A th \in Threads :
        Notifying(th) =>
            /\ clock >= Top(th).x
            /\ (stack[th][Len(stack[th]) - 1].x = clock) =>
                   clock < Top(th).x + PROCESS_TIME

\* C16, amended: the slack is a lookahead.  The notifier is invoked no
\* earlier than PROCESS_TIME before the deadline; a drain ends only when
\* no stored timer is due within PROCESS_TIME; and while timers are stored
\* and no timer call is in progress, the aggregate timeout named by the
\* store is outstanding with a deadline no later than the earliest stored
\* deadline, or than 2 us from now when that deadline had passed at the
\* time the timeout was submitted.
C16_FiresWithinLookahead ==
    /\ [](\A th \in Threads :
            Notifying(th) => clock >= Top(th).x - PROCESS_TIME)
    /\ []((~rawMode /\ panic = "none" /\ timerSeq # {} /\ Quiescent) =>
            \E e \in sqes \cup cqes :
                /\ e.k = "agg" /\ e.ud = uringId /\ e.dl = nextExpire
                /\ \/ e.dl <= SeqFirst(timerSeq).expire
                   \/ e.dl <= clock + 2000)
    /\ [][\A th \in Threads :
            (/\ HasTop(th, "Trigger", "loop")
             /\ Len(stack'[th]) = Len(stack[th])
             /\ stack'[th][Len(stack'[th])].pc = "final") =>
                \A u \in timerSeq' : u.expire > clock + PROCESS_TIME]_vars

\* C16 witness: the drain that the aggregate timeout started is about to
\* call the notifier of a timer before the timer's deadline, while the other
\* timer is still stored.
C16_Witness ==
    \E th \in Threads :
        /\ Notifying(th)
        /\ stack[th][Len(stack[th]) - 1].x # 0
        /\ clock < Top(th).x
        /\ timerSeq # {}

\* The task has an entry on the lock's queue.
OnQueue(t) == \E i \in 1..Len(queue) : queue[i].task = t

\* The task is inside Lock and has not got the lock yet.
Waiting(t) == lpc[t] \in {"blocked", "unregOk", "unregErr", "retry"}

\* Some task holds the guard.
Held == \E u \in Tasks : lpc[u] = "holding"

\* C17 as stated: an Unlock wakes every task registered on the queue; a
\* blocked task that has not been woken is registered and the lock is held;
\* so, with holders that unlock, no task stays blocked for ever, and
\* whenever a task waits for the lock some task comes to hold it.
C17_BlockingBoundedByUnlock ==
    /\ [][(locked /\ ~locked') =>
            \A t \in Tasks : OnQueue(t) => waiterBit'[t]]_vars
    /\ [](\A t \in Tasks :
            (lpc[t] = "blocked" /\ ~waiterBit[t]) => (locked /\ OnQueue(t)))
    /\ \A t \in Tasks : []<>(lpc[t] # "blocked")
    /\ (\E t \in Tasks : Waiting(t)) ~> Held

\* C17, amended: the same, except that a waiting task may also leave Lock
\* with the error of an interrupted BlockGeneral.  No task stays blocked for
\* ever, and no task stays inside Lock for ever while the lock is free: a
\* task inside Lock leaves it only with the guard or with the error, so
\* again and again it is outside Lock or some task holds the guard.
C17_BlockingBoundedOrInterrupted ==
    /\ [][(locked /\ ~locked') =>
            \A t \in Tasks : OnQueue(t) => waiterBit'[t]]_vars
    /\ [](\A t \in Tasks :
            (lpc[t] = "blocked" /\ ~waiterBit[t]) => (locked /\ OnQueue(t)))
    /\ \A t \in Tasks : []<>(lpc[t] # "blocked")
    /\ \A t \in Tasks : []<>(~Waiting(t) \/ Held)

\* C17 witness: one Unlock has woken two registered waiters, neither has run
\* yet, and the lock is free.
C17_Witness ==
    /\ ~locked
    /\ \E t, u \in Tasks :
          /\ t # u
          /\ lpc[t] = "blocked" /\ OnQueue(t) /\ waiterBit[t]
          /\ lpc[u] = "blocked" /\ OnQueue(u) /\ waiterBit[u]

\* The number of entries in the ring: the submitter's tail minus the
\* consumer's head, in wrapping arithmetic.
Occupancy == wrapping_sub(SubmitterTail, sqHead)

\* C21: a push on a full queue returns Err and changes neither the tail nor
\* any slot; the occupancy never exceeds ring_entries, across wrap-around of
\* the counters too; and no unconsumed entry is overwritten: the entries
\* pushed and not consumed sit, in order, in the slots from head on.
C21_FullPushRejected ==
    /\ [][SqPush =>
            /\ sqRet' = (IF wrapping_sub(aq.tail, aq.head) = U32(0, ring_entries)
                         THEN "Err" ELSE "Ok")
            /\ sqRet' = "Err" => UNCHANGED <<aq, sqTail, sqSlots>>]_vars
    /\ [](/\ Occupancy.hi = 0
          /\ Occupancy.lo <= ring_entries
          /\ Occupancy.lo = Len(sqPending)
          /\ \A i \in 1..Len(sqPending) :
                sqSlots[(sqHead.lo + i - 1) % ring_entries] = sqPending[i])

\* C21 witness: the counters have wrapped around 2^32 (tail is below head),
\* the ring is full, and the last push was turned down.
C21_Witness ==
    /\ aq.live
    /\ is_full(aq)
    /\ aq.tail.hi < sqHead.hi
    /\ Occupancy = U32(0, ring_entries)
    /\ sqRet = "Err"

\* The vCPU's Call has been promoted: it is about to take its count back,
\* or it is inside the hypercall.
Promoted(v) == vpc[v] \in {"undo", "hcall"}

\* The vCPU's Call goes through the queue: it is in the TryPush loop.
Queued(v) == vpc[v] = "push" /\ vcall[v].kind = "Call"

\* C22: a Call is promoted to an HCall exactly when its Notify swap read
\* WAITING and mustAsync is false.  A promoted Call takes back the one count
\* it added and pushes nothing; any other Call pushes one QCall descriptor,
\* leaves the count it added in place, and its task stays suspended until
\* the host has popped that descriptor and completes it.
C22_PromotedExactlyWhenHostWaiting ==
    /\ [](\A v \in Vcpus :
            /\ Promoted(v) => /\ vcall[v].kind = "Call"
                              /\ vcall[v].old = "WAITING"
                              /\ ~vcall[v].mustAsync
            /\ Queued(v) => (vcall[v].old = "RUNNING" \/ vcall[v].mustAsync)
            /\ Cardinality({i \in 1..Len(QOutput) : QOutput[i] = QCallMsg(v)})
                  = (IF vpc[v] = "wait" /\ ~(hpc = "popped" /\ hmsg = QCallMsg(v))
                     THEN 1 ELSE 0))
    /\ [][\A v \in Vcpus :
            /\ (vpc[v] = "notify" /\ vpc'[v] # "notify") =>
                  vcall'[v].old = ioThreadState
            /\ (vpc[v] = "undo" /\ vpc'[v] # "undo") =>
                  /\ vpc'[v] = "hcall"
                  /\ hostMsgCount' = hostMsgCount - 1
                  /\ QOutput' = QOutput
            /\ (vpc[v] = "hcall" /\ vpc'[v] # "hcall") =>
                  /\ vpc'[v] = "idle"
                  /\ UNCHANGED <<hostMsgCount, QOutput>>
            /\ (Queued(v) /\ vpc'[v] # "push") =>
                  /\ vpc'[v] = "wait"
                  /\ QOutput' = Append(QOutput, QCallMsg(v))
                  /\ hostMsgCount' = hostMsgCount
            /\ (vpc[v] = "wait" /\ vpc'[v] # "wait") =>
                  /\ hpc = "popped" /\ hmsg = QCallMsg(v)
                  /\ vpc'[v] = "idle"]_vars

\* C22 witness: one vCPU's Call found the host WAITING and is inside the
\* hypercall, with its count taken back; another vCPU's Call, which found
\* the host RUNNING, has its descriptor on QOutput and is suspended.
C22_Witness ==
    \E v, w \in Vcpus :
        /\ vpc[v] = "hcall"
        /\ vpc[w] = "wait"
        /\ QOutput = <<QCallMsg(w)>>
        /\ hostMsgCount = 1

\* What Unlock does in one step: the flag is cleared and the waiter bit of
\* every task with an entry on the queue is set.
UnlockNotifiesAll ==
    \A t \in Tasks :
        Unlock(t) =>
            /\ locked' = FALSE
            /\ \A u \in NotifiedBy(queue) : waiterBit'[u]

\* The acquisition attempt of a task an Unlock woke: it takes the lock iff
\* the flag is clear at that moment and is then the only holder; otherwise
\* it clears its waiter bit, links its entry again and blocks, and neither
\* holds the guard nor has Lock returned to it.
WokenAttempt ==
    \A t \in woken.set :
        LockAttempt(t) =>
            IF locked
            THEN /\ lpc'[t] = "blocked"
                 /\ t \in NotifiedBy(queue')
                 /\ ~waiterBit'[t]
                 /\ locked'
                 /\ lockRet'[t] = lockRet[t]
            ELSE /\ lpc'[t] = "holding"
                 /\ \A u \in Tasks \ {t} : lpc'[u] # "holding"

\* C23 as stated: Unlock clears the flag and notifies every registered
\* entry; of the tasks one Unlock woke exactly one takes the lock at its
\* next attempt, and every other one of them registers again and blocks
\* again, never having been the holder.
C23_ExactlyOneWokenWins ==
    /\ [][UnlockNotifiesAll /\ WokenAttempt]_vars
    /\ [](woken.won <= 1 /\ woken.left = 0)
    /\ [][\A t \in Tasks :
            (woken.set = {t} /\ LockAttempt(t)) =>
                AfterAttempt(t, locked = FALSE).won = 1]_vars
    /\ [][\A t \in woken.set : ~(LockUnregister(t) /\ lpc[t] = "unregErr")]_vars

\* C23, amended: Unlock clears the flag and notifies every registered entry;
\* a woken task takes the lock at its next attempt iff the flag is clear at
\* that moment, so never while another task holds it, and a woken task that
\* finds the flag set registers again and blocks again without having been
\* the holder.  Until its attempt a woken task is inside Lock and is not the
\* holder.  (Nothing makes exactly one of them win: a task that was not
\* waiting may take the lock first, the winner may unlock before the others
\* attempt, and a woken task may return ErrInterrupted.)
C23_WokenContendForFlag ==
    /\ [][UnlockNotifiesAll /\ WokenAttempt]_vars
    /\ [](/\ Cardinality(Holders) <= 1
          /\ \A t \in woken.set : Waiting(t)
          /\ \A t \in woken.set :
                (lpc[t] = "blocked" /\ OnQueue(t)) => waiterBit[t])

\* C23 witness: of two tasks woken by one Unlock one has taken the lock and
\* holds it, and the other is about to attempt and will find the flag set.
C23_Witness ==
    \E t, u \in Tasks :
        /\ woken.on /\ woken.set = {u} /\ woken.won = 1
        /\ lpc[u] = "retry"
        /\ lpc[t] = "holding" /\ locked
        /\ lockRet[u] # "Ok"

RECURSIVE SumFrom(_, _)
SumFrom(f, c) == IF c >= CLASS_CNT THEN 0 ELSE f[c] + SumFrom(f, c + 1)

\* C25: a drain pass takes blocks from the heads of the tier-2 lists only;
\* it takes at most FREE_BATCH blocks in all; a class it takes from is left
\* with at least its reserve; it lowers bufSize by exactly the bytes of the
\* blocks it took and leaves total and free alone; it takes from a class only
\* after every larger class is down to its reserve, and only if NeedFree
\* still held after what the larger classes gave; and it ends with NeedFree
\* false, with FREE_BATCH blocks taken, or with every class at its reserve.
C25_DrainPass ==
    [][Free =>
        LET cnt   == [c \in 0..(CLASS_CNT - 1) |-> Len(bufs[c]) - Len(bufs'[c])]
            bytes == [c \in 0..(CLASS_CNT - 1) |-> cnt[c] * 2^c]
        IN  /\ \A c \in 0..(CLASS_CNT - 1) :
                  /\ cnt[c] >= 0
                  /\ bufs'[c] = SubSeq(bufs[c], cnt[c] + 1, Len(bufs[c]))
                  /\ cnt[c] > 0 =>
                        /\ Len(bufs'[c]) >= Reserve(c)
                        /\ \A d \in (c + 1)..(CLASS_CNT - 1) :
                              Len(bufs'[d]) <= Reserve(d)
                        /\ NeedFree([AllocNow EXCEPT
                                       !.bufSize = @ - SumFrom(bytes, c + 1)])
            /\ SumFrom(cnt, 0) <= FREE_BATCH
            /\ bufSize' = bufSize - SumFrom(bytes, 0)
            /\ UNCHANGED <<total, free>>
            /\ \/ ~NeedFree([AllocNow EXCEPT !.bufSize = bufSize'])
               \/ SumFrom(cnt, 0) = FREE_BATCH
               \/ \A c \in 0..(CLASS_CNT - 1) : Len(bufs'[c]) <= Reserve(c)]_vars

\* C25 witness: a drain pass has taken class 11 down to its reserve and then
\* two blocks of class 10, ten blocks in all, and has stopped there although
\* NeedFree still holds.
C25_Witness ==
    /\ lastCall = "Free"
    /\ calls = 1
    /\ Len(bufs[11]) = Reserve(11)
    /\ Len(bufs[10]) = Reserve(10) + 3
    /\ NeedFree(AllocNow)

\* The unit a turn of thread th's drain loop takes from the store in this
\* step, NoUnit if the turn ends the loop.
Taken(th) == GetFirstUnit(StoreNow, clock + PROCESS_TIME)

\* What one turn of the drain loop that takes a unit does: the unit leaves
\* the store, and one Fire is started for it, with the timer id, the
\* sequence number and the expire it was stored under.
FiresTaken(th) ==
    (TriggerLoop(th) /\ Taken(th) # NoUnit) =>
        /\ Taken(th) \in timerSeq
        /\ timers[Taken(th).timerId] = Taken(th)
        /\ timerSeq' = timerSeq \ {Taken(th)}
        /\ Len(stack'[th]) = Len(stack[th]) + 1
        /\ stack'[th][Len(stack'[th])] =
              Frame("Fire", "check", Taken(th).timerId, Taken(th).seqNo,
                    Taken(th).expire, 0)

\* The unit the drain of th fired before this turn, NoUnit if none.
FiredLast(th) ==
    IF Top(th).id = 0 THEN NoUnit
    ELSE [timerId |-> Top(th).id, seqNo |-> 0, expire |-> Top(th).now]

\* C26 as stated: when Trigger returns the store holds no entry that expires
\* at or before the clock value of the drain's last check plus PROCESS_TIME;
\* every entry the drain removed had Fire called once, with the sequence
\* number it was stored under; and the entries of one drain are fired in
\* ascending (expire, timer id) order.
C26_DrainedAtReturnInOrder ==
    [][\A th \in Threads :
          /\ TriggerFinal(th) =>
                \A u \in timerSeq' : u.expire > Top(th).now
          /\ FiresTaken(th)
          /\ (TriggerLoop(th) /\ Taken(th) # NoUnit /\ FiredLast(th) # NoUnit) =>
                ~UnitLess(Taken(th), FiredLast(th))]_vars

\* C26, amended: at the moment the drain's last check finds nothing due, the
\* store holds no entry that expires at or before that check's clock value
\* plus PROCESS_TIME; every entry the drain removed had Fire called once,
\* with the sequence number it was stored under; and every entry the drain
\* takes is the least of the store, in (expire, timer id) order, at the
\* moment it is taken.  (Entries armed while the drain runs may be due at
\* its return, and may be fired after entries that expire later.)
C26_DrainedAtLastCheck ==
    [][\A th \in Threads :
          /\ (TriggerLoop(th) /\ Taken(th) = NoUnit) =>
                /\ \A u \in timerSeq' : u.expire > clock + PROCESS_TIME
                /\ stack'[th][Len(stack'[th])].pc = "final"
                /\ stack'[th][Len(stack'[th])].now = clock + PROCESS_TIME
          /\ FiresTaken(th)
          /\ (TriggerLoop(th) /\ Taken(th) # NoUnit) =>
                \A o \in timerSeq : o = Taken(th) \/ UnitLess(Taken(th), o)]_vars

\* C26 witness: a drain that has fired one unit is starting the Fire of a
\* second one, with the sequence number the timer still has, while a unit
\* that is not yet due stays stored.
C26_Witness ==
    \E th \in Threads :
        /\ drainTrace
        /\ HasTop(th, "Fire", "check")
        /\ Top(th).seq = tSeqNo[Top(th).id]
        /\ stack[th][Len(stack[th]) - 1].f = "Trigger"
        /\ timerSeq # {}
        /\ \A u \in timerSeq : u.expire > clock + PROCESS_TIME

\* The aggregate timeout the store names is armed: nextExpire is set, and
\* the timeout submitted under uringId with that deadline is outstanding or
\* has completed and waits for a CQE worker.
AggregateArmed ==
    /\ nextExpire # 0
    /\ \E e \in sqes \cup cqes :
          e.k = "agg" /\ e.ud = uringId /\ e.dl = nextExpire

\* C27: in batched mode, whenever the Reset, Stop and Trigger calls made so
\* far have all completed and the store holds an entry, the aggregate timeout
\* is armed with a deadline no later than the earliest stored expire, or no
\* later than 2000 ns from now; and every Trigger that returns with an entry
\* in the store returns with nextExpire set, to no more than the earliest
\* stored expire or to 2000 ns from now.
C27_AggregateCoversStore ==
    /\ []((~rawMode /\ panic = "none" /\ timerSeq # {} /\ Quiescent) =>
            /\ AggregateArmed
            /\ \/ nextExpire <= SeqFirst(timerSeq).expire
               \/ nextExpire <= clock + 2000)
    /\ [][\A th \in Threads :
            (~rawMode /\ TriggerFinal(th) /\ timerSeq' # {} /\ panic' = "none") =>
                /\ nextExpire' # 0
                /\ \/ nextExpire' <= SeqFirst(timerSeq').expire
                   \/ nextExpire' = clock + 2000]_vars

\* C27 witness: after resets and a fire, with no call in progress, the store
\* holds an entry whose expire has passed, and the aggregate timeout is
\* outstanding with a deadline 2000 ns from now.
C27_Witness ==
    /\ ~rawMode /\ Quiescent /\ panic = "none"
    /\ timerSeq # {}
    /\ SeqFirst(timerSeq).expire < clock
    /\ nextExpire = clock + 2000
    /\ fireLog.out = "fired"
    /\ \E e \in sqes : e.k = "agg" /\ e.ud = uringId /\ e.dl = nextExpire

\* The raw TIMEOUT entries of timer id that are submitted and not removed.
RawOutstanding(id) == {e \in sqes : e.k = "raw" /\ e.ud.id = id}

\* C28: in raw mode a Reset with delta > 0 of a timer that has an outstanding
\* TIMEOUT entry removes that entry and submits a new one, so that no timer
\* ever has more than one outstanding entry.
C28_RawResetCancelsFirst ==
    /\ [][\A th \in Threads : \A id \in TimerIds : \A delta \in Deltas \ {0} :
            (rawMode /\ Reset(th, id, delta)) =>
                /\ RawOutstanding(id) \cap RawOutstanding(id)' = {}
                /\ Cardinality(RawOutstanding(id)') = 1]_vars
    /\ [](rawMode => \A id \in TimerIds : Cardinality(RawOutstanding(id)) <= 1)


\* The neighbours a fault is to pre-install: those of turns 1..n, where n
\* is the last turn before the first neighbour outside the range, the first
\* install error, or turn 8.
InRangeTurns(p) ==
    {n \in 0..7 : \A k \in 1..n : Contains(p.range, NeighbourAddr(p, k))}

InstalledTurns(p) ==
    {n \in InRangeTurns(p) : p.failAt = 0 \/ n < p.failAt}

Neighbours(p) ==
    {NeighbourAddr(p, k) : k \in {n \in InstalledTurns(p) : n >= 1}}

\* C29: when the prefetch loop of a resolved page-absent fault at page P has
\* ended, the pages the fault has mapped are P and its neighbours
\* P + i (P - i when the VMA grows down) for i = 1, 2, ... up to the first
\* neighbour outside the range of the VMA, the first install error, or 7.
C29_NeighboursPreinstalled ==
    prefetch.done => prefetch.mapped = {prefetch.pageAddr} \cup Neighbours(prefetch)

\* The statement has run.
ExitPast(step) == ExitPos(exitRun.pc) > ExitPos(step)

\* What the record of the task, which lies on the stack to be freed, still
\* refers to.
TaskHolds == {exitRun.task[f] : f \in DOMAIN exitRun.task}

\* What the locals of the RunExitDone block refer to.
LocalsHold == {exitRun.local[f] : f \in DOMAIN exitRun.local}

\* C30 as stated: SetDummy runs before the stack is registered as
\* pending-free and before the switch, and nothing dropped after that refers
\* to the memory manager, fd table or thread the task had.  The drops counted
\* are those after the registration, the later of the two points before the
\* switch; those between SetDummy and the registration are left out.
C30_NoOriginalDroppedAfterSetDummy ==
    /\ exitRun.pendingFree => ExitPast("SetDummy")
    /\ exitRun.pc = "switched" => exitRun.pendingFree
    /\ ExitPast("SetPendingFreeStack") => exitRun.dropped \cap Originals = {}

\* C30: SetDummy runs before the stack is registered as pending-free and
\* before the switch; from SetDummy on the record of the task refers to
\* nothing the task had; the handles of the thread and of its memory manager
\* that the block took into locals are dropped after SetDummy (the memory
\* manager after the registration) and before the switch, and once control
\* has switched neither the task nor a local refers to what the task had and
\* the thread has the memory manager and fd table of the dummy task.
C30_TaskReboundBeforeFree ==
    /\ exitRun.pendingFree => ExitPast("SetDummy")
    /\ exitRun.pc = "switched" => exitRun.pendingFree
    /\ ExitPast("SetDummy") => TaskHolds \cap Originals = {}
    /\ ExitPast("Thread") /\ ~ExitPast("blockEnd")
          => exitRun.local.thread = "taskThread"
    /\ exitRun.pc = "SwitchToNewTask" => exitRun.dropped = {"taskThread"}
    /\ exitRun.pc = "blockEnd" => exitRun.dropped \subseteq ThreadMms
    /\ exitRun.pc = "switched"
          => /\ LocalsHold = {"None"}
             /\ exitRun.dropped = {}
             /\ exitRun.thread = [memoryMgr |-> "dummyMm",
                                  fdTbl |-> "dummyFdTbl"]

\* The memory manager the task had is dropped by drop(mm), after the stack
\* has been registered as pending-free.
C30_Witness ==
    /\ exitRun.pc = "blockEnd"
    /\ exitRun.pendingFree
    /\ exitRun.dropped = {"taskMm"}
    /\ TaskHolds \cap Originals = {}

\* The order of a sequence of set-up records agrees with rank: no record
\* comes before one of a smaller rank.
InRankOrder(log, rank(_)) ==
    \A j, k \in 1..Len(log) : j < k => rank(log[j]) <= rank(log[k])

ShareSpaceFirstRank(c) ==
    IF c \in {"SHARESPACE", "INIT"} THEN 1
    ELSE IF c = "ALLOCATOR" THEN 2 ELSE 3

AllocatorFirstRank(c) ==
    IF c = "ALLOCATOR" THEN 1
    ELSE IF c = "SHARESPACE" THEN 2
    ELSE IF c \in {"IOURING", "scheduler"} THEN 3
    ELSE IF c = "INIT" THEN 4 ELSE 5

\* C31 as stated: on vCPU 0 the process-wide state is set up in the order
\* ShareSpace (with its INIT hypercall) first, the allocator's arena second,
\* everything else after them.
C31_ShareSpaceThenAllocator ==
    InRankOrder(rustMain.setUp, ShareSpaceFirstRank)

\* C31: on vCPU 0 the process-wide state is set up in the order allocator
\* first (its arena is added), ShareSpace second (the static is forced), then
\* the io_uring handle and the scheduler's vCPU count, then the INIT
\* hypercall that hands ShareSpace to the host, then everything else; and
\* vCPU 0 sets up nothing before the arena is added.
C31_AllocatorThenShareSpace ==
    /\ InRankOrder(rustMain.setUp, AllocatorFirstRank)
    /\ rustMain.setUp # <<>> => rustMain.setUp[1] = "ALLOCATOR"
    /\ rustMain.pc[0] > 3 => Len(rustMain.setUp) >= 2

\* vCPU 0 has made the INIT hypercall and gone on to the page table.
C31_Witness ==
    /\ Len(rustMain.setUp) >= 6
    /\ rustMain.setUp[1] = "ALLOCATOR"
    /\ rustMain.setUp[2] = "SHARESPACE"
    /\ rustMain.setUp[5] = "INIT"

\* The thread's next step is to take lock l, or to call a function that
\* does so first.
AboutTo(th, ops) ==
    locks.todo[th] # <<>> /\ Head(locks.todo[th]).op \in ops

WantsStore(th) ==
    \/ AboutTo(th, {"Trigger"})
    \/ AboutTo(th, {"lock"}) /\ Head(locks.todo[th]).id = StoreLock

\* The thread spins on a lock that is taken.
Spins(th) ==
    AboutTo(th, {"lock"}) /\ locks.owner[Head(locks.todo[th]).id] # 0

C33_StoreMatchesTimers ==
    /\ \A id \in TimerIds :
          Cardinality({e \in timerSeq : e.timerId = id}) <= 1
    /\ timerSeq = {timers[id] : id \in {i \in TimerIds : timers[i] # NoUnit}}
    /\ \A id \in TimerIds :
          timers[id] # NoUnit
            => /\ timers[id].timerId = id
               /\ tState[id] = "Running"
               /\ timers[id].seqNo = tSeqNo[id]
    /\ panic # "RemoveTimer"

\* Both timers are stored, one of them under its second sequence number (a
\* Reset has replaced its earlier entry), and a timer has been cancelled.
C33_Witness ==
    /\ \A id \in TimerIds : timers[id] # NoUnit
    /\ \E id \in TimerIds : timers[id].seqNo >= 2
    /\ cancelled # {}

\* The aggregate timeouts the store has submitted that have neither fired
\* nor been removed.
AggregatesOutstanding == {e \in sqes : e.k = "agg"}

C35_ModesAgree ==
    /\ modes.raw.t = modes.store.t
    /\ modes.raw.ret = modes.store.ret
    /\ modes.raw.fired = modes.store.fired

\* Lock returns to task t with the error of BlockGeneral in this step.
ReturnsErr(t) == lpc[t] = "unregErr" /\ lpc'[t] = "idle"

\* Task t is inside a call of Lock that has not taken the lock.
Contending(t) == lpc[t] \in {"blocked", "unregOk", "unregErr", "retry"}

\* C36: when Lock returns the error of an interrupted block, the caller
\* holds no guard, no step of the call has changed the locked flag, and the
\* caller has no entry left on the queue; the flag is set exactly while some
\* task holds the guard, so the holder's Unlock finds it set and a task that
\* finds it clear takes the lock.
C36_ErrLeavesLockAsItWas ==
    /\ [][\A t \in Tasks :
            /\ ReturnsErr(t)
                 => /\ lockRet'[t] = "Err"
                    /\ locked' = locked
                    /\ t \notin NotifiedBy(queue')
            /\ (Contending(t) \/ lpc[t] = "idle") /\ lpc'[t] # lpc[t]
                 /\ lpc'[t] # "holding"
                 => locked' = locked]_vars
    /\ [](\A t \in Tasks : lpc[t] = "idle" => t \notin NotifiedBy(queue))
    /\ [](locked <=> \E t \in Tasks : lpc[t] = "holding")

\* A task has come back from Lock with the error while another holds the
\* lock and a third is still blocked on it.
C36_Witness ==
    \E t, h, o \in Tasks :
        /\ lockRet[t] = "Err" /\ lpc[t] = "idle"
        /\ lpc[h] = "holding" /\ locked
        /\ lpc[o] = "blocked" /\ o \in NotifiedBy(queue)

\* This step is a NewTask that made a thread and did not count it: the
\* thread group is exiting, or AssignTids has failed.
NewTaskErr == lastUid' = lastUid + 1 /\ taskCount' = taskCount

\* C37: when AssignTids fails, on return no namespace has the thread in
\* tasks or in tids, and no namespace has an entry in tgids that it did not
\* have before the call.
C37_FailedAssignUndone ==
    [][NewTaskErr
         => \A ns \in PidNs :
              /\ \A tid \in Tids : nsTasks'[ns][tid] # lastUid'
              /\ nsTids'[ns][lastUid'] = 0
              /\ \A tg \in Tgs :
                    nsTgids[ns][tg] = 0 => nsTgids'[ns][tg] = 0]_vars

\* C38: a NewTask that returns an error leaves the task count, the maps of
\* every PID namespace, the thread group's members and leader, and the
\* thread the calling Task is bound to as they were.
C38_FailedNewTaskChangesNothing ==
    [][NewTaskErr
         => UNCHANGED <<taskCount, nsTasks, nsTids, nsTgids, thrTg, tgLeader,
                        curThread>>]_vars

\* C39: on a socket with buffered I/O, a RecvMsg that returns Ok returns the
\* number of bytes the call copied into the destination buffers, whichever
\* way it leaves.
C39_OkReturnsBytesCopied ==
    recvMsg.ret.kind = "Ok" => recvMsg.ret.n = recvMsg.copied

\* C40: no wake-up is lost: whenever a message is in QOutput, the host thread
\* state is RUNNING or an eventfd write the host has not consumed is pending.
C40_NoLostWakeup ==
    QOutput # <<>> => (ioThreadState = "RUNNING" \/ eventfd > 0)

====
